---- MODULE Spec2Model ----
(***************************************************************************)
(* A model of the BYAC staking front end: the deployment script, the       *)
(* decimal/base-unit conversion of amounts, the staking dashboard and the   *)
(* admin dashboard, each as a state machine with its own specification.     *)
(*                                                                          *)
(* Strings that the code inspects (environment values, amount inputs) are   *)
(* sequences of one-character strings.  A JavaScript bigint is a BigInt     *)
(* here: its canonical sequence of decimal digits (no leading zero, <<"0">> *)
(* for zero), because amounts at 18 decimals do not fit a machine integer.  *)
(***************************************************************************)
EXTENDS Integers, Sequences, FiniteSets, TLC

VARIABLES
    env,        \* process.env of the deployment script
    proc,       \* the deployment script's process
    chainId,    \* the chain the wallet and the public client are connected to
    address,    \* useAccount().address: None or Some(address)
    chain,      \* the staking contract's state on chain
    sd,         \* StakingDashboard: its useState cells and useBalance's data
    handler,    \* the StakingDashboard write handler last invoked: its position and locals
    fetches,    \* the fetchData invocations in flight, in the order they started
    ad,         \* AdminDashboard: its useState cells
    adFetches,  \* AdminDashboard: the fetchData invocations in flight
    flows,      \* AdminDashboard: the write handler invocations in progress
    txs,        \* the transactions the admin's wallet has sent; a hash is an index
    timers,     \* AdminDashboard: the armed setTimeout callbacks, per status cell
    rd,         \* the invocation of a contract read helper last made: its reads and result
    ro,         \* utils/alchemy.ts: a call of retryOperation, with what it has done so far
    mo          \* utils/moralis.ts: initializationPromise, the promises made, Moralis.start

deployVars == <<env, proc>>
worldVars == <<chainId, address, chain>>
stakingVars == <<sd, handler, fetches>>
adminVars == <<ad, adFetches, flows, txs, timers>>
readVars == <<rd, ro, mo>>
vars ==
    <<env, proc, chainId, address, chain, sd, handler, fetches, ad, adFetches, flows,
      txs, timers, rd, ro, mo>>

\* null/undefined where a string of characters may stand instead, and the
\* optional values T | null of the component state: <<>> or <<value>>
Undefined == <<"#undefined">>
Null == <<"#null">>
None == <<>>
Some(x) == <<x>>

(***************************************************************************)
(* Bounds of the model.                                                     *)
(***************************************************************************)
MaxDigits == 1      \* digits of the short digit strings inputs are built from

(***************************************************************************)
(* Character-sequence helpers.                                              *)
(***************************************************************************)
DigitChars == <<"0", "1", "2", "3", "4", "5", "6", "7", "8", "9">>
Digit == {DigitChars[i] : i \in 1..10}
DigitVal(c) == (CHOOSE i \in 1..10 : DigitChars[i] = c) - 1
DigitOf(n) == DigitChars[n + 1]

Repeat(c, n) == [i \in 1..n |-> c]
Zeros(n) == Repeat("0", n)

RECURSIVE StripLeadingZeros(_)
StripLeadingZeros(s) ==
    IF s # <<>> /\ Head(s) = "0" THEN StripLeadingZeros(Tail(s)) ELSE s

RECURSIVE StripTrailingZeros(_)
StripTrailingZeros(s) ==
    IF s # <<>> /\ s[Len(s)] = "0"
    THEN StripTrailingZeros(SubSeq(s, 1, Len(s) - 1))
    ELSE s

\* String.prototype.padStart(n, '0') and padEnd(n, '0')
PadStart(s, n) == IF Len(s) >= n THEN s ELSE Zeros(n - Len(s)) \o s
PadEnd(s, n) == IF Len(s) >= n THEN s ELSE s \o Zeros(n - Len(s))

\* String.prototype.slice(from) and slice(from, to), 0-based, to exclusive
SliceFrom(s, from) == SubSeq(s, from + 1, Len(s))
Slice(s, from, to) == SubSeq(s, from + 1, IF to > Len(s) THEN Len(s) ELSE to)

(***************************************************************************)
(* BigInt: canonical digit sequences.                                       *)
(***************************************************************************)
\* BigInt(str) of a string of digits ("" is 0n)
BigOf(s) == LET t == StripLeadingZeros(s) IN IF t = <<>> THEN <<"0">> ELSE t
Big0 == <<"0">>

RECURSIVE LexLess(_, _)
LexLess(a, b) ==
    /\ a # <<>>
    /\ \/ DigitVal(Head(a)) < DigitVal(Head(b))
       \/ Head(a) = Head(b) /\ LexLess(Tail(a), Tail(b))

BigLess(a, b) == Len(a) < Len(b) \/ (Len(a) = Len(b) /\ LexLess(a, b))
BigLeq(a, b) == a = b \/ BigLess(a, b)

\* a + 1n
RECURSIVE IncDigits(_)
IncDigits(s) ==
    IF s = <<>> THEN <<"1">>
    ELSE IF s[Len(s)] = "9"
         THEN IncDigits(SubSeq(s, 1, Len(s) - 1)) \o <<"0">>
         ELSE SubSeq(s, 1, Len(s) - 1) \o <<DigitOf(DigitVal(s[Len(s)]) + 1)>>
BigInc(a) == BigOf(IncDigits(a))

(***************************************************************************)
(* viem's parseUnits/formatUnits, as parseEther and formatEther use them.   *)
(***************************************************************************)
Decimals == 18

\* /^\d*\.?\d*$/, the test of the amount fields' onChange (and, without the
\* sign, the test parseUnits makes before it converts)
IsDecimalString(v) ==
    /\ \A i \in 1..Len(v) : v[i] \in Digit \cup {"."}
    /\ Cardinality({i \in 1..Len(v) : v[i] = "."}) <= 1

DotIndex(v) ==
    IF \E i \in 1..Len(v) : v[i] = "." THEN CHOOSE i \in 1..Len(v) : v[i] = "." ELSE 0

\* let [integer, fraction = '0'] = value.split('.')
IntegerPart(v) == IF DotIndex(v) = 0 THEN v ELSE SubSeq(v, 1, DotIndex(v) - 1)
FractionPart(v) ==
    IF DotIndex(v) = 0 THEN <<"0">> ELSE SubSeq(v, DotIndex(v) + 1, Len(v))

\* Math.round(Number(`${unit}.${right}`)), right not empty
RoundUnit(unit, right) ==
    DigitVal(unit) + (IF DigitVal(right[1]) >= 5 THEN 1 ELSE 0)

\* The fraction longer than the decimals, rounded to them; a carry out of the
\* fraction is returned as the pair's first component
RoundFraction(fraction, decimals) ==
    LET left    == Slice(fraction, 0, decimals - 1)
        unit    == fraction[decimals]
        right   == SliceFrom(fraction, decimals)
        rounded == RoundUnit(unit, right)
        f1      == IF rounded > 9
                   THEN PadStart(BigInc(BigOf(left)) \o <<"0">>, Len(left) + 1)
                   ELSE left \o <<DigitOf(rounded)>>
        carry   == Len(f1) > decimals
        f2      == IF carry THEN SliceFrom(f1, 1) ELSE f1
    IN  <<carry, Slice(f2, 0, decimals)>>

parseUnits(value, decimals) ==
    LET integer  == IntegerPart(value)
        fraction == StripTrailingZeros(FractionPart(value))
    IN  IF Len(fraction) > decimals
        THEN LET r == RoundFraction(fraction, decimals)
             IN  BigOf((IF r[1] THEN BigInc(BigOf(integer)) ELSE integer) \o r[2])
        ELSE BigOf(integer \o PadEnd(fraction, decimals))

formatUnits(value, decimals) ==
    LET display  == PadStart(value, decimals)
        integer  == Slice(display, 0, Len(display) - decimals)
        fraction == StripTrailingZeros(SliceFrom(display, Len(display) - decimals))
    IN  (IF integer = <<>> THEN <<"0">> ELSE integer)
        \o (IF fraction # <<>> THEN <<".">> \o fraction ELSE <<>>)

parseEtherAsGwei(value) == parseUnits(value, 9)
parseEther(value) == parseUnits(value, Decimals)
formatEther(value) == formatUnits(value, Decimals)

\* config.requiredEnvVars of the deployment script
requiredEnvVars ==
    <<"VITE_ALCHEMY_API_KEY", "PRIVATE_KEY", "DEPLOYER_ADDRESS", "BRAIDS_TOKEN_ADDRESS">>
RequiredNames == {requiredEnvVars[i] : i \in 1..Len(requiredEnvVars)}

(***************************************************************************)
(* The contract read helpers (src/contracts/StakingContract.ts).            *)
(***************************************************************************)
RewardsDuration == 604800

RECURSIVE NatDigits(_)
NatDigits(k) ==
    IF k < 10 THEN <<DigitOf(k)>> ELSE NatDigits(k \div 10) \o <<DigitOf(k % 10)>>

RECURSIVE MulDigits(_, _, _)
MulDigits(s, n, carry) ==
    IF s = <<>> THEN (IF carry = 0 THEN <<>> ELSE NatDigits(carry))
    ELSE LET v == DigitVal(s[Len(s)]) * n + carry
         IN  MulDigits(SubSeq(s, 1, Len(s) - 1), n, v \div 10) \o <<DigitOf(v % 10)>>

\* a * BigInt(n)
BigMulNat(a, n) == BigOf(MulDigits(a, n, 0))

\* a - b for a >= b, digit by digit from the right
RECURSIVE SubDigits(_, _, _, _)
SubDigits(a, b, i, borrow) ==
    IF i = 0 THEN <<>>
    ELSE LET d == DigitVal(a[i]) - DigitVal(b[i]) - borrow IN
         Append(SubDigits(a, b, i - 1, IF d < 0 THEN 1 ELSE 0),
                DigitOf(IF d < 0 THEN d + 10 ELSE d))
BigSub(a, b) == BigOf(SubDigits(a, PadStart(b, Len(a)), Len(a), 0))

\* a / n rounded down, digit by digit from the left
RECURSIVE DivDigits(_, _, _, _)
DivDigits(s, n, i, rem) ==
    IF i > Len(s) THEN <<>>
    ELSE LET cur == rem * 10 + DigitVal(s[i]) IN
         <<DigitOf(cur \div n)>> \o DivDigits(s, n, i + 1, cur % n)
BigDivNat(a, n) == BigOf(DivDigits(a, n, 1, 0))

Tokens(n) == parseEther(NatDigits(n))

DefaultStakingStats ==
    [totalStaked |-> Big0, rewardRate |-> Big0, rewardForDuration |-> Big0,
     isPaused |-> FALSE]

DefaultUserStats ==
    [stakedAmount |-> Big0, earnedRewards |-> Big0, stakingPoints |-> Big0,
     stakingTime |-> Big0]

\* ok: every read of the helper's Promise.all resolved
getStakingStatsKeepPaused(c, ok) ==
    IF ok
    THEN [totalStaked |-> c.totalStaked, rewardRate |-> c.rewardRate,
          rewardForDuration |-> BigMulNat(c.rewardRate, RewardsDuration),
          isPaused |-> c.paused]
    ELSE [DefaultStakingStats EXCEPT !.isPaused = c.paused]
getStakingStats(c, ok) ==
    IF ok
    THEN [totalStaked |-> c.totalStaked, rewardRate |-> c.rewardRate,
          rewardForDuration |-> BigMulNat(c.rewardRate, RewardsDuration),
          isPaused |-> c.paused]
    ELSE DefaultStakingStats

getUserStats(c, ok) ==
    IF ok
    THEN [stakedAmount |-> c.stakedAmount, earnedRewards |-> c.earnedRewards,
          stakingPoints |-> c.stakingPoints, stakingTime |-> c.stakingTime]
    ELSE DefaultUserStats

\* The contract states the model ranges over (for the connected address)
UserStates ==
    { [stakedAmount |-> Big0, earnedRewards |-> Big0, stakingPoints |-> Big0,
       stakingTime |-> Big0],
      [stakedAmount |-> Tokens(2), earnedRewards |-> Tokens(1),
       stakingPoints |-> <<"7">>, stakingTime |-> <<"9">>] }
ChainStates ==
    { [paused |-> p, totalStaked |-> Tokens(5), rewardRate |-> <<"3">>,
       stakedAmount |-> u.stakedAmount, earnedRewards |-> u.earnedRewards,
       stakingPoints |-> u.stakingPoints, stakingTime |-> u.stakingTime] :
      p \in BOOLEAN, u \in UserStates }

(***************************************************************************)
(* The staking dashboard (src/components/StakingDashboard.tsx).             *)
(***************************************************************************)
RoninChainId == 2020
ChainIds == {1, RoninChainId}
Addresses == {"0xA11CE"}

\* Error messages are kept as their parts: <<a, b>> stands for `${a}: ${b}`
WrongNetwork == "Please connect to Ronin Mainnet"
RpcError == "rpc error"          \* the message of a rejected remote call
NoBraids == <<"No BRAIDS available to stake">>
StakeFailed == "Transaction failed! Contract Interaction with RON failed"
UnstakeFailed == "Failed to unstake"
ClaimFailed == "Claim failed"
RestakeFailed == "Restake failed"

TxCalls == {"approve", "stake", "withdraw", "getReward"}

\* The handler invocation in progress: its position, the amount it parsed or
\* captured and the contract calls it has issued. When it has returned, name
\* still tells which handler ran last. reverted: the receipt of the first of
\* its two transactions came back with status 'reverted'.
HandlerIdle ==
    [name |-> "none", pc |-> "done", parsedAmount |-> None, calls |-> {},
     reverted |-> FALSE]
Returned(h) == [HandlerIdle EXCEPT !.name = h.name]

\* stakingStats?.isPaused
StatsPaused(s) == s.stakingStats # None /\ s.stakingStats[1].isPaused

\* !userStats?.earnedRewards || userStats.earnedRewards <= 0n
NoRewardsNullOnly(us) == us = None
NoRewards(us) == us = None \/ BigLeq(us[1].earnedRewards, Big0)

\* A modal is a fixed overlay over the whole page: the page's buttons cannot be
\* clicked while one is open
ModalOpen(s) == s.isStakeModalOpen \/ s.isUnstakeModalOpen

\* the disabled attributes of the buttons and inputs
Busy(s) == s.transactionInProgress \/ s.isLoading
StakeButtonDisabled(s) == s.transactionInProgress \/ StatsPaused(s) \/ s.isLoading
ConfirmStakeDisabled(s) ==
    s.stakeAmount = <<>> \/ s.transactionInProgress \/ StatsPaused(s) \/ s.isLoading
ConfirmUnstakeDisabled(s) == s.unstakeAmount = <<>> \/ Busy(s)
ClaimDisabled(s) == NoRewards(s.userStats) \/ Busy(s)
MaxStakeDisabled(s) == s.transactionInProgress \/ s.braidsBalance = None \/ s.isLoading
MaxUnstakeDisabled(s) ==
    \/ s.transactionInProgress
    \/ s.userStats = None
    \/ BigLeq(s.userStats[1].stakedAmount, Big0)
    \/ s.isLoading

\* ---- fetchData ----------------------------------------------------------
\* The synchronous head of fetchData, after its guard
FetchHead(s) == [s EXCEPT !.isLoading = TRUE, !.error = None]

RemoveAt(q, i) == SubSeq(q, 1, i - 1) \o SubSeq(q, i + 1, Len(q))

\* What the handler awaiting fetchData() does when it returns, and the Confirm
\* button's onClick after it
AfterFetch(s, h) ==
    LET t == [s EXCEPT !.transactionInProgress = FALSE] IN
    CASE h.name = "handleStake"   -> [t EXCEPT !.stakeAmount = <<>>,
                                               !.isStakeModalOpen = FALSE]
      [] h.name = "handleUnstake" -> [t EXCEPT !.unstakeAmount = <<>>,
                                               !.isUnstakeModalOpen = FALSE]
      [] OTHER                    -> t

\* fetchData has returned for the invocation at i: its caller continues
FetchReturn(i, s) ==
    /\ fetches' = RemoveAt(fetches, i)
    /\ IF fetches[i].owner = "handler"
       THEN /\ sd' = AfterFetch(s, handler)
            /\ handler' = Returned(handler)
       ELSE /\ sd' = s
            /\ UNCHANGED handler

\* fetchData's catch and finally
FetchFail(s, msg) == [s EXCEPT !.error = Some(<<msg>>), !.isLoading = FALSE]

\* The continuation after Promise.all: both results are objects, so both are stored
StoreStats(s, res) ==
    [s EXCEPT !.stakingStats = Some(res.stats), !.userStats = Some(res.user),
              !.isLoading = FALSE]

\* The awaits of fetchData settle. getChainId rejects, or reports the wallet's
\* chain; on the right chain getStakingStats and getUserStats each read the
\* contract or fall back. The contract's state is fixed for the session, so the
\* moment of the reads within the invocation makes no difference.
FetchSettle(i) ==
    /\ \E ok \in BOOLEAN :
         IF ok /\ chainId = RoninChainId
         THEN \E okStats \in BOOLEAN, okUser \in BOOLEAN :
                FetchReturn(i, StoreStats(sd, [stats |-> getStakingStats(chain, okStats),
                                               user  |-> getUserStats(chain, okUser)]))
         ELSE FetchReturn(i, FetchFail(sd, IF ok THEN WrongNetwork ELSE RpcError))
    /\ UNCHANGED <<readVars, deployVars, adminVars, worldVars>>

NewFetch(owner) == [owner |-> owner]

\* ---- the write handlers ---------------------------------------------------
MaxStake == parseEther(<<"1">> \o Zeros(6))

\* handleStake's checks of the parsed amount, in order; "ok" when none throws
StakeValidation(parsedAmount, braidsBalance) ==
    IF BigLeq(parsedAmount, Big0) THEN "Amount must be greater than 0"
    ELSE IF BigLess(MaxStake, parsedAmount)
         THEN "Amount exceeds maximum stake limit of 1,000,000 BRAIDS"
    ELSE IF braidsBalance # None /\ BigLess(braidsBalance[1], parsedAmount)
         THEN "Insufficient BRAIDS balance"
    ELSE "ok"

\* handleUnstake's checks: a stakedAmount of 0n is falsy and skips the comparison
UnstakeValidation(parsedAmount, userStats) ==
    IF BigLeq(parsedAmount, Big0) THEN "Amount must be greater than 0"
    ELSE IF /\ userStats # None
            /\ userStats[1].stakedAmount # Big0
            /\ BigLess(userStats[1].stakedAmount, parsedAmount)
         THEN "Insufficient staked amount"
    ELSE "ok"

\* The message each handler's catch builds from the error's message
HandlerError(name, msg) ==
    CASE name = "handleStake"   -> <<StakeFailed, msg>>
      [] name = "handleUnstake" -> <<UnstakeFailed, msg>>
      [] name = "handleClaim"   -> <<ClaimFailed, msg>>
      [] name = "handleRestake" -> <<RestakeFailed, msg>>

\* A handler's catch and finally, and the Confirm button's onClick after them
Catch(s, h, msg) ==
    LET t == [s EXCEPT !.error = Some(HandlerError(h.name, msg)),
                       !.transactionInProgress = FALSE] IN
    CASE h.name = "handleStake"   -> [t EXCEPT !.isStakeModalOpen = FALSE]
      [] h.name = "handleUnstake" -> [t EXCEPT !.isUnstakeModalOpen = FALSE]
      [] OTHER                    -> t

\* A wallet request (writeContractAsync) can only succeed with a connected account
Outcomes == IF address = None THEN {FALSE} ELSE BOOLEAN

\* await fetchData() at the end of a handler
HandlerFetch ==
    IF address = None
    THEN /\ sd' = AfterFetch(sd, handler)
         /\ handler' = Returned(handler)
         /\ UNCHANGED fetches
    ELSE /\ sd' = FetchHead(sd)
         /\ handler' = [handler EXCEPT !.pc = "fetch"]
         /\ fetches' = Append(fetches, NewFetch("handler"))

\* One await of the running handler settles: it goes on to next (issuing the
\* calls in newCalls) or its catch runs
Await(ok, next, newCalls) ==
    IF ok
    THEN /\ handler' = [handler EXCEPT !.pc = next, !.calls = @ \cup newCalls]
         /\ UNCHANGED <<sd, fetches>>
    ELSE /\ handler' = Returned(handler)
         /\ sd' = Catch(sd, handler, RpcError)
         /\ UNCHANGED fetches

\* How publicClient.waitForTransactionReceipt settles: it resolves with the
\* receipt of a transaction in a block, whatever the receipt's status, or rejects
ReceiptOutcomes == {"success", "reverted", "rejected"}

\* The receipt wait of the first of two transactions settles; the code reads
\* nothing of the receipt
AwaitFirstReceipt(r, next, newCalls) ==
    IF r = "rejected"
    THEN Await(FALSE, next, newCalls)
    ELSE /\ handler' = [handler EXCEPT !.pc = next, !.calls = @ \cup newCalls,
                                       !.reverted = (r = "reverted")]
         /\ UNCHANGED <<sd, fetches>>

\* The last receipt wait settles; on success the handler calls fetchData
AwaitReceipt(ok) ==
    IF ok THEN HandlerFetch
    ELSE /\ handler' = Returned(handler)
         /\ sd' = Catch(sd, handler, RpcError)
         /\ UNCHANGED fetches

\* Confirm Stake: handleStake up to its first await
ClickConfirmStake ==
    /\ sd.isStakeModalOpen
    /\ ~ConfirmStakeDisabled(sd)
    /\ sd.stakeAmount # <<>>
    /\ LET p == parseEther(sd.stakeAmount)
           v == StakeValidation(p, sd.braidsBalance)
           h == [HandlerIdle EXCEPT !.name = "handleStake", !.parsedAmount = Some(p)]
       IN  IF v = "ok"
           THEN /\ handler' = [h EXCEPT !.pc = "allowance", !.calls = {"allowance"}]
                /\ sd' = [sd EXCEPT !.transactionInProgress = TRUE]
           ELSE /\ handler' = Returned(h)
                /\ sd' = Catch(sd, h, v)
    /\ UNCHANGED <<readVars, deployVars, adminVars, worldVars, fetches>>

AllowanceValues == {Big0, Tokens(2)}

HandleStakeStep ==
    /\ handler.name = "handleStake"
    /\ handler.pc \in {"allowance", "approve", "approveReceipt", "gas", "stakeTx",
                       "stakeReceipt"}
    /\ CASE handler.pc = "allowance" ->
              \E ok \in BOOLEAN, a \in AllowanceValues :
                IF BigLess(a, handler.parsedAmount[1])
                THEN Await(ok, "approve", {"approve"})
                ELSE Await(ok, "gas", {"estimateGas"})
         [] handler.pc = "approve" ->
              \E ok \in Outcomes : Await(ok, "approveReceipt", {})
         [] handler.pc = "approveReceipt" ->
              \E r \in ReceiptOutcomes : AwaitFirstReceipt(r, "gas", {"estimateGas"})
         [] handler.pc = "gas" ->
              \* the simulated stake reverts while the allowance is short
              \E ok \in (IF handler.reverted THEN {FALSE} ELSE BOOLEAN) :
                  Await(ok, "stakeTx", {"stake"})
         [] handler.pc = "stakeTx" ->
              \E ok \in Outcomes : Await(ok, "stakeReceipt", {})
         [] handler.pc = "stakeReceipt" ->
              \E ok \in BOOLEAN : AwaitReceipt(ok)
    /\ UNCHANGED <<readVars, deployVars, adminVars, worldVars>>

\* Confirm Unstake: handleUnstake up to its first await
ClickConfirmUnstake ==
    /\ sd.isUnstakeModalOpen
    /\ ~ConfirmUnstakeDisabled(sd)
    /\ sd.unstakeAmount # <<>>
    /\ LET p == parseEther(sd.unstakeAmount)
           v == UnstakeValidation(p, sd.userStats)
           h == [HandlerIdle EXCEPT !.name = "handleUnstake", !.parsedAmount = Some(p)]
       IN  IF v = "ok"
           THEN /\ handler' = [h EXCEPT !.pc = "withdrawTx", !.calls = {"withdraw"}]
                /\ sd' = [sd EXCEPT !.transactionInProgress = TRUE]
           ELSE /\ handler' = Returned(h)
                /\ sd' = Catch(sd, h, v)
    /\ UNCHANGED <<readVars, deployVars, adminVars, worldVars, fetches>>

HandleUnstakeStep ==
    /\ handler.name = "handleUnstake"
    /\ handler.pc \in {"withdrawTx", "withdrawReceipt"}
    /\ CASE handler.pc = "withdrawTx" ->
              \E ok \in Outcomes : Await(ok, "withdrawReceipt", {})
         [] handler.pc = "withdrawReceipt" ->
              \E ok \in BOOLEAN : AwaitReceipt(ok)
    /\ UNCHANGED <<readVars, deployVars, adminVars, worldVars>>

\* handleClaim up to its first await. The button is disabled by the same test
\* the handler starts with; the handler's own test is what the model runs.
ClickClaim ==
    /\ ~ModalOpen(sd)
    /\ ~Busy(sd)
    /\ IF NoRewards(sd.userStats)
       THEN /\ handler' = [HandlerIdle EXCEPT !.name = "handleClaim"]
            /\ UNCHANGED sd
       ELSE /\ handler' = [HandlerIdle EXCEPT !.name = "handleClaim",
                                              !.pc = "getRewardTx",
                                              !.calls = {"getReward"}]
            /\ sd' = [sd EXCEPT !.transactionInProgress = TRUE]
    /\ UNCHANGED <<readVars, deployVars, adminVars, worldVars, fetches>>

HandleClaimStep ==
    /\ handler.name = "handleClaim"
    /\ handler.pc \in {"getRewardTx", "getRewardReceipt"}
    /\ CASE handler.pc = "getRewardTx" ->
              \E ok \in Outcomes : Await(ok, "getRewardReceipt", {})
         [] handler.pc = "getRewardReceipt" ->
              \E ok \in BOOLEAN : AwaitReceipt(ok)
    /\ UNCHANGED <<readVars, deployVars, adminVars, worldVars>>

\* handleRestake up to its first await; the amount staked later is the
\* earnedRewards of the snapshot the handler was created with
ClickRestake ==
    /\ ~ModalOpen(sd)
    /\ ~Busy(sd)
    /\ IF NoRewards(sd.userStats)
       THEN /\ handler' = [HandlerIdle EXCEPT !.name = "handleRestake"]
            /\ UNCHANGED sd
       ELSE /\ handler' = [HandlerIdle EXCEPT
                               !.name = "handleRestake", !.pc = "getRewardTx",
                               !.parsedAmount = Some(sd.userStats[1].earnedRewards),
                               !.calls = {"getReward"}]
            /\ sd' = [sd EXCEPT !.transactionInProgress = TRUE]
    /\ UNCHANGED <<readVars, deployVars, adminVars, worldVars, fetches>>

HandleRestakeStep ==
    /\ handler.name = "handleRestake"
    /\ handler.pc \in {"getRewardTx", "getRewardReceipt", "stakeTx", "stakeReceipt"}
    /\ CASE handler.pc = "getRewardTx" ->
              \E ok \in Outcomes : Await(ok, "getRewardReceipt", {})
         [] handler.pc = "getRewardReceipt" ->
              \E r \in ReceiptOutcomes : AwaitFirstReceipt(r, "stakeTx", {"stake"})
         [] handler.pc = "stakeTx" ->
              \E ok \in Outcomes : Await(ok, "stakeReceipt", {})
         [] handler.pc = "stakeReceipt" ->
              \E ok \in BOOLEAN : AwaitReceipt(ok)
    /\ UNCHANGED <<readVars, deployVars, adminVars, worldVars>>

\* ---- the user, the wallet and the chain -----------------------------------
MaxFetches == 1     \* polls and retries in flight at once (a handler's own fetch is extra)

StakeInputs == {<<>>, <<"3">>, <<"1", "e", "3">>}
UnstakeInputs == {<<>>, <<"0">>, <<"3">>}
WalletBalance == Tokens(2)      \* the account's BRAIDS balance
BalanceValues == {WalletBalance}

\* The amount field's onChange (stake modal)
TypeStakeAmountFrom(inputs) ==
    /\ sd.isStakeModalOpen
    /\ ~Busy(sd)
    /\ \E val \in inputs :
         /\ val = <<>> \/ IsDecimalString(val)
         /\ sd' = [sd EXCEPT !.stakeAmount = val]
    /\ UNCHANGED <<readVars, deployVars, adminVars, worldVars, handler, fetches>>

TypeStakeAmount == TypeStakeAmountFrom(StakeInputs)

\* The amount field's onChange (unstake modal)
TypeUnstakeAmount ==
    /\ sd.isUnstakeModalOpen
    /\ ~Busy(sd)
    /\ \E val \in UnstakeInputs :
         /\ val = <<>> \/ IsDecimalString(val)
         /\ sd' = [sd EXCEPT !.unstakeAmount = val]
    /\ UNCHANGED <<readVars, deployVars, adminVars, worldVars, handler, fetches>>

\* MAX in the stake modal
ClickMaxStake ==
    /\ sd.isStakeModalOpen
    /\ ~MaxStakeDisabled(sd)
    /\ sd' = [sd EXCEPT !.stakeAmount = formatEther(sd.braidsBalance[1])]
    /\ UNCHANGED <<readVars, deployVars, adminVars, worldVars, handler, fetches>>

\* MAX in the unstake modal
ClickMaxUnstake ==
    /\ sd.isUnstakeModalOpen
    /\ ~MaxUnstakeDisabled(sd)
    /\ sd' = [sd EXCEPT !.unstakeAmount = formatEther(sd.userStats[1].stakedAmount)]
    /\ UNCHANGED <<readVars, deployVars, adminVars, worldVars, handler, fetches>>

\* The Stake button: checkStakeAvailability
ClickStake ==
    /\ ~ModalOpen(sd)
    /\ ~StakeButtonDisabled(sd)
    /\ sd' = IF sd.braidsBalance = None \/ BigLeq(sd.braidsBalance[1], Big0)
             THEN [sd EXCEPT !.error = Some(NoBraids)]
             ELSE [sd EXCEPT !.isStakeModalOpen = TRUE]
    /\ UNCHANGED <<readVars, deployVars, adminVars, worldVars, handler, fetches>>

\* The Unstake button
ClickUnstake ==
    /\ ~ModalOpen(sd)
    /\ ~Busy(sd)
    /\ sd' = [sd EXCEPT !.isUnstakeModalOpen = TRUE]
    /\ UNCHANGED <<readVars, deployVars, adminVars, worldVars, handler, fetches>>

\* A modal's onClose
CloseModal ==
    /\ ModalOpen(sd)
    /\ sd' = [sd EXCEPT !.isStakeModalOpen = FALSE, !.isUnstakeModalOpen = FALSE]
    /\ UNCHANGED <<readVars, deployVars, adminVars, worldVars, handler, fetches>>

\* fetchData called from outside a handler: the interval timer or the Retry button
StartFetch(owner) ==
    /\ address # None
    /\ Len(fetches) < MaxFetches
    /\ sd' = FetchHead(sd)
    /\ fetches' = Append(fetches, NewFetch(owner))

PollTick ==
    /\ StartFetch("poll")
    /\ UNCHANGED <<readVars, deployVars, adminVars, worldVars, handler>>

ClickRetry ==
    /\ sd.error # None
    /\ ~ModalOpen(sd)
    /\ StartFetch("retry")
    /\ UNCHANGED <<readVars, deployVars, adminVars, worldVars, handler>>

\* The account connects: the polling effect runs fetchData and starts the interval
WalletConnect ==
    /\ address = None
    /\ \E a \in Addresses : address' = Some(a)
    /\ sd' = FetchHead(sd)
    /\ fetches' = Append(fetches, NewFetch("poll"))
    /\ UNCHANGED <<readVars, deployVars, adminVars, chainId, chain, handler>>

\* useBalance's data changes (watch: true)
BalanceUpdateFrom(values) ==
    /\ address # None
    /\ \E b \in {None} \cup {Some(v) : v \in values} :
         /\ b # sd.braidsBalance
         /\ sd' = [sd EXCEPT !.braidsBalance = b]
    /\ UNCHANGED <<readVars, deployVars, adminVars, worldVars, handler, fetches>>

BalanceUpdate == BalanceUpdateFrom(BalanceValues)

\* The user switches the wallet's network
ChainSwitch ==
    /\ \E c \in ChainIds \ {chainId} : chainId' = c
    /\ UNCHANGED <<readVars, deployVars, adminVars, address, chain, stakingVars>>

SdInit ==
    [stakingStats |-> None, userStats |-> None, stakeAmount |-> <<>>,
     unstakeAmount |-> <<>>, error |-> None, transactionInProgress |-> FALSE,
     isLoading |-> FALSE, isStakeModalOpen |-> FALSE, isUnstakeModalOpen |-> FALSE,
     braidsBalance |-> None]

DeployParked ==
    /\ env = [n \in RequiredNames |-> Undefined]
    /\ proc = [pc |-> "parked", exitCode |-> Null, effects |-> {}, file |-> Null]

StakingParked ==
    /\ sd = SdInit
    /\ handler = HandlerIdle
    /\ fetches = <<>>

\* AdminDashboard as mounted
NoRoles == [isAdmin |-> FALSE, isMaintainer |-> FALSE, isDepositor |-> FALSE]
AdInit ==
    [stakingStats |-> None, roles |-> NoRoles, rewardAmount |-> <<>>,
     depositAmount |-> <<>>, loading |-> TRUE, error |-> None,
     rewardTxStatus |-> "idle", pauseTxStatus |-> "idle", depositTxStatus |-> "idle",
     rewardTxHash |-> None, pauseTxHash |-> None, depositTxHash |-> None,
     rewardInputError |-> None, depositInputError |-> None]
NoTimers == [t \in {"reward", "pause", "deposit"} |-> 0]

\* No read helper has been called
RdIdle ==
    [helper |-> "none", role |-> "none", pc |-> "idle", attempts |-> 0, failed |-> {},
     result |-> None]
\* retryOperation not called; the moralis module as loaded
RoIdle == [n |-> 0, i |-> 0, pc |-> "idle", log |-> <<>>, result |-> None]
MoLoaded ==
    [apiKey |-> FALSE, isStarted |-> FALSE, initializationPromise |-> None,
     promises |-> <<>>, callers |-> <<>>]
ReadsParked == rd = RdIdle /\ ro = RoIdle /\ mo = MoLoaded

AdminParked ==
    /\ ad = AdInit
    /\ adFetches = <<>>
    /\ flows = <<>>
    /\ txs = <<>>
    /\ timers = NoTimers

WorldParked ==
    /\ chainId = RoninChainId
    /\ address = None
    /\ chain \in {c \in ChainStates : ~c.paused /\ c.stakedAmount = Big0}

\* The page as mounted, before the wallet connects. The contract's state is the
\* session's parameter: no transaction of the session is followed into it.
InitStaking ==
    /\ chainId \in ChainIds
    /\ address = None
    /\ chain \in ChainStates
    /\ sd = SdInit
    /\ handler = HandlerIdle
    /\ fetches = <<>>
    /\ DeployParked
    /\ AdminParked
    /\ ReadsParked

NextStaking ==
    \/ WalletConnect
    \/ PollTick
    \/ ClickRetry
    \/ \E i \in 1..Len(fetches) : FetchSettle(i)
    \/ BalanceUpdate
    \/ ChainSwitch
    \/ ClickStake
    \/ ClickUnstake
    \/ CloseModal
    \/ TypeStakeAmount
    \/ TypeUnstakeAmount
    \/ ClickMaxStake
    \/ ClickMaxUnstake
    \/ ClickConfirmStake
    \/ HandleStakeStep
    \/ ClickConfirmUnstake
    \/ HandleUnstakeStep
    \/ ClickClaim
    \/ HandleClaimStep
    \/ ClickRestake
    \/ HandleRestakeStep

SpecStaking == InitStaking /\ [][NextStaking]_vars

\* C2: a step taken while the connected chain id is not 2020 adds no
\* transaction (approve, stake, withdraw, getReward) to the calls the running
\* handler has submitted.
C2_NoSubmissionOnWrongChain ==
    [][(address # None /\ chainId # RoninChainId) =>
          (handler'.calls \cap TxCalls) \subseteq handler.calls]_vars

\* C5: every invocation of handleStake with an entered amount above the
\* account's token balance returns without having issued any call (no allowance
\* read, approve, gas estimate or stake) and with one of handleStake's errors set.
C5_OverBalanceStakeMakesNoCall ==
    [][(ClickConfirmStake /\ BigLess(WalletBalance, parseEther(sd.stakeAmount))) =>
          /\ handler'.calls = {}
          /\ handler'.pc = "done"
          /\ fetches' = fetches
          /\ sd'.error # None
          /\ sd'.error[1][1] = StakeFailed]_vars

\* C6: every invocation of handleClaim or handleRestake made while the userStats
\* snapshot is absent or has earnedRewards <= 0 leaves the dashboard's state as
\* it was, starts no fetch and submits nothing.
C6_ClaimWithoutRewardsIsNoOp ==
    [][((ClickClaim \/ ClickRestake)
          /\ (sd.userStats = None \/ BigLeq(sd.userStats[1].earnedRewards, Big0))) =>
          /\ sd' = sd
          /\ fetches' = fetches
          /\ handler'.calls = {}
          /\ handler'.pc = "done"]_vars
C6_Witness ==
    /\ handler.name \in {"handleClaim", "handleRestake"}
    /\ handler.pc = "done"
    /\ chain.earnedRewards = Big0
    /\ sd.userStats # None
    /\ sd.userStats[1].earnedRewards = Big0
    /\ sd.error = None
    /\ ~sd.transactionInProgress

\* C11: in handleStake (approve, then stake) and handleRestake (getReward, then
\* stake) the stake transaction is submitted only from the point where the
\* receipt of the first transaction has been received, and never when the first
\* transaction failed (its receipt has status 'reverted').
C11_SecondTxOnlyAfterFirstSucceeds ==
    [][(/\ handler.name \in {"handleStake", "handleRestake"}
        /\ "stake" \in handler'.calls /\ "stake" \notin handler.calls
        /\ handler.calls \cap {"approve", "getReward"} # {})
          => /\ handler.pc \in {"gas", "getRewardReceipt"}
             /\ ~handler'.reverted]_vars

\* C18: whenever handleUnstake submits withdraw, the amount is greater than 0
\* and no greater than the stakedAmount of the stored userStats snapshot; with
\* no snapshot stored, or one with stakedAmount 0, it submits nothing.
C18_WithdrawWithinStake ==
    [][("withdraw" \in handler'.calls /\ "withdraw" \notin handler.calls)
          => /\ BigLess(Big0, handler'.parsedAmount[1])
             /\ sd.userStats # None
             /\ BigLeq(handler'.parsedAmount[1], sd.userStats[1].stakedAmount)]_vars

\* An error set by the catch of a write handler
TransactionError(e) ==
    e # None /\ e[1][1] \in {StakeFailed, UnstakeFailed, ClaimFailed, RestakeFailed}

\* C23: the fetchData fired by the interval timer leaves an error that a failed
\* write handler has set as it is.
C23_PollKeepsTransactionError ==
    [][(PollTick /\ TransactionError(sd.error)) => sd'.error = sd.error]_vars

\* C14: a write handler of the staking dashboard in which a transaction
\* submission or confirmation failed (the request or the receipt wait rejected,
\* or the receipt came back reverted) has set a non-null error when it finishes.
C14_WriteFailureSetsError ==
    [][(/\ handler.name \in {"handleStake", "handleUnstake", "handleClaim", "handleRestake"}
        /\ handler.pc # "done" /\ handler'.pc = "done"
        /\ \/ handler.pc \in {"approve", "approveReceipt", "stakeTx", "stakeReceipt",
                              "withdrawTx", "withdrawReceipt", "getRewardTx",
                              "getRewardReceipt"}
           \/ handler.reverted)
          => sd'.error # None]_vars

\* C9: a completed fetchData that follows an earlier completed one leaves
\* stakingStats and userStats as that one stored them (the contract's state
\* does not change during a session).
C9_RepeatedPollsStoreSameStats ==
    [][(Len(fetches') < Len(fetches) /\ sd.stakingStats # None) =>
          /\ sd'.stakingStats = sd.stakingStats
          /\ sd'.userStats = sd.userStats]_vars

(***************************************************************************)
(* The amount conversion of the stake modal: a session with the modal open, *)
(* over amounts and balances that reach into the eighteenth decimal.        *)
(***************************************************************************)
ConvDigits == {"0", "1", "9"}
ShortDigitSeqs == UNION {[1..n -> ConvDigits] : n \in 1..MaxDigits}

\* Fractions of 1, 17, 18 and 19 digits (with MaxDigits = 1)
FractionPads == {0, Decimals - 2, Decimals - 1, Decimals}
ConvFractions == {Zeros(k) \o f : k \in FractionPads, f \in ShortDigitSeqs}

\* What is typed into the amount field; the last three the field rejects
ConvInputs ==
    ShortDigitSeqs
      \cup {i \o <<".">> \o f : i \in ShortDigitSeqs \cup {<<>>}, f \in ConvFractions}
      \cup {i \o <<".">> : i \in ShortDigitSeqs \cup {<<>>}}
      \cup {<<>>, <<"1", "e", "3">>, <<"-", "1">>, <<"1", ".", "2", ".", "3">>}

ConvBalances ==
    { Big0, <<"1">>, Tokens(2),
      <<"1">> \o Zeros(Decimals - 1) \o <<"1">>,
      <<"1", "5">> \o Zeros(Decimals - 1),
      Repeat("9", Decimals) }

InitConv ==
    /\ chainId = RoninChainId
    /\ address \in {Some(a) : a \in Addresses}
    /\ chain \in {c \in ChainStates : ~c.paused /\ c.stakedAmount = Big0}
    /\ \E b \in ConvBalances :
         sd = [SdInit EXCEPT !.stakingStats = Some(getStakingStats(chain, TRUE)),
                             !.userStats = Some(getUserStats(chain, TRUE)),
                             !.isStakeModalOpen = TRUE,
                             !.braidsBalance = Some(b)]
    /\ handler = HandlerIdle
    /\ fetches = <<>>
    /\ DeployParked
    /\ AdminParked
    /\ ReadsParked

NextConv ==
    \/ TypeStakeAmountFrom(ConvInputs)
    \/ ClickMaxStake
    \/ ClickConfirmStake

SpecConv == InitConv /\ [][NextConv]_vars

\* C10: an amount the field accepts with at most 18 fractional digits denotes
\* the same number after parseEther and formatEther; a balance is the same
\* base-unit integer after formatEther and parseEther; and a handleStake that
\* was confirmed on the amount MAX entered holds exactly the snapshot balance.
C10_ConversionRoundTrip ==
    LET d == sd.stakeAmount
        DecValue(v) == <<BigOf(IntegerPart(v)),
                         IF DotIndex(v) = 0 THEN <<>>
                         ELSE StripTrailingZeros(SubSeq(v, DotIndex(v) + 1, Len(v)))>>
        FracDigits(v) == IF DotIndex(v) = 0 THEN 0 ELSE Len(v) - DotIndex(v)
    IN  /\ (d # <<>> /\ FracDigits(d) <= 18) =>
              DecValue(formatEther(parseEther(d))) = DecValue(d)
        /\ sd.braidsBalance # None =>
              parseEther(formatEther(sd.braidsBalance[1])) = sd.braidsBalance[1]
        /\ (handler.pc = "allowance" /\ d = formatEther(sd.braidsBalance[1])) =>
              handler.parsedAmount = sd.braidsBalance
C10_Witness ==
    /\ Len(sd.stakeAmount) - DotIndex(sd.stakeAmount) = 18
    /\ DotIndex(sd.stakeAmount) > 1
    /\ sd.stakeAmount[Len(sd.stakeAmount)] # "0"
    /\ sd.stakeAmount = formatEther(sd.braidsBalance[1])
    /\ handler.name = "handleStake"
    /\ handler.pc = "allowance"

(***************************************************************************)
(* The admin dashboard (AdminDashboard.tsx).                                *)
(***************************************************************************)
MaxTxs == 2         \* transactions the admin's wallet sends in a session

\* The roles the contract grants the connected account
RoleSets ==
    { NoRoles,
      [NoRoles EXCEPT !.isAdmin = TRUE],
      [NoRoles EXCEPT !.isMaintainer = TRUE],
      [NoRoles EXCEPT !.isDepositor = TRUE],
      [isAdmin |-> TRUE, isMaintainer |-> TRUE, isDepositor |-> TRUE] }

AdminChainStates ==
    { [paused |-> p, totalStaked |-> Tokens(5), rewardRate |-> <<"3">>, roles |-> r] :
      p \in BOOLEAN, r \in RoleSets }

\* checkRole returns the promise of the read from inside its try: a failed
\* read rejects it
checkRole(c, role, ok) ==
    IF ~ok THEN "rejected"
    ELSE CASE role = "ADMIN"      -> c.roles.isAdmin
           [] role = "MAINTAINER" -> c.roles.isMaintainer
           [] role = "DEPOSITOR"  -> c.roles.isDepositor

\* The other version of checkRole awaits the read inside its try
checkRoleAwaited(c, role, ok) ==
    IF ~ok THEN FALSE
    ELSE CASE role = "ADMIN"      -> c.roles.isAdmin
           [] role = "MAINTAINER" -> c.roles.isMaintainer
           [] role = "DEPOSITOR"  -> c.roles.isDepositor

WrongNetworkAdmin == "Please connect to Ronin mainnet"
LoadFailed == "Failed to load admin data"
UserRejected == <<"User rejected transaction">>
ApprovalFailed == <<"Approval transaction failed">>
DepositFailed == <<"Deposit transaction failed">>
InsufficientBalance == <<"Insufficient BRAIDS balance">>

\* The views: the role gate, then a panel per role
GatePassed(a) ==
    address # None /\ (a.roles.isAdmin \/ a.roles.isMaintainer \/ a.roles.isDepositor)
PausePanel(a) == GatePassed(a) /\ (a.roles.isMaintainer \/ a.roles.isAdmin)
DepositPanel(a) == GatePassed(a) /\ (a.roles.isDepositor \/ a.roles.isAdmin)

\* The Access Denied view: with no role in the stored roles the component
\* returns it once loading is over, and "Checking Permissions" until then
HoldsRole(r) == r.isAdmin \/ r.isMaintainer \/ r.isDepositor
AccessDenied(a) == address # None /\ ~HoldsRole(a.roles) /\ ~a.loading
\* The gate of the component's other version, over the same stored roles
AccessDeniedAllRoles(a) ==
    address # None /\ a.roles.isAdmin /\ a.roles.isMaintainer /\ a.roles.isDepositor
\* setStakingStats and setRoles are called together, after the reads resolved
RolesFetched(a) == a.stakingStats # None

InProgress(status) == status \in {"pending", "preparing"}

\* Pause and unpause transactions of the session that have been confirmed
ConfirmedToggles ==
    Cardinality({h \in 1..Len(txs) : /\ txs[h].kind \in {"pause", "unpause"}
                                     /\ txs[h].state = "confirmed"})

\* ---- fetchData ----------------------------------------------------------
\* reflected records, for a confirmed pause or unpause, whether the dashboard's
\* stakingStats.isPaused has equalled the contract's flag since the confirmation
NewTx(kind, amount) ==
    [kind |-> kind, amount |-> amount, state |-> "pending", notified |-> FALSE,
     reflected |-> FALSE]

ShowsFlag(a, flag) == a.stakingStats # None /\ a.stakingStats[1].isPaused = flag

AdminFetchHead(a) == [a EXCEPT !.loading = TRUE, !.error = None]

\* epoch: the confirmed toggles when the invocation started
NewAdminFetch(owner) ==
    [owner |-> owner, epoch |-> ConfirmedToggles]

AdminFetchFail(a, msg) ==
    [a EXCEPT !.error = Some(<<LoadFailed, msg>>), !.loading = FALSE]

\* What Promise.all resolves with; checkRole rejecting rejects it
AdminReads(c, okStats, okRoles) ==
    [stats |-> getStakingStats(c, okStats),
     admin |-> checkRole(c, "ADMIN", okRoles),
     maintainer |-> checkRole(c, "MAINTAINER", okRoles),
     depositor |-> checkRole(c, "DEPOSITOR", okRoles),
     rejected |-> ~okRoles]

\* The stored results, or the catch
AdminStore(a, r) ==
    IF r.rejected
    THEN AdminFetchFail(a, RpcError)
    ELSE [a EXCEPT !.stakingStats = Some(r.stats),
                   !.roles = [isAdmin |-> r.admin, isMaintainer |-> r.maintainer,
                              isDepositor |-> r.depositor],
                   !.loading = FALSE]

\* A fetchData invocation runs from its first await to its end: getChainId
\* settles, then on the right chain the reads of Promise.all. The node serves
\* them from one block.
AdminFetchSettle(i) ==
    /\ \E ok \in BOOLEAN :
         IF ok /\ chainId = RoninChainId
         THEN \E okStats \in BOOLEAN, okRoles \in BOOLEAN :
                  ad' = AdminStore(ad, AdminReads(chain, okStats, okRoles))
         ELSE ad' = AdminFetchFail(ad, IF ok THEN WrongNetworkAdmin ELSE RpcError)
    /\ adFetches' = RemoveAt(adFetches, i)
    /\ txs' = [h \in 1..Len(txs) |->
                 IF /\ txs[h].kind \in {"pause", "unpause"}
                    /\ txs[h].state = "confirmed"
                    /\ ShowsFlag(ad', chain.paused)
                 THEN [txs[h] EXCEPT !.reflected = TRUE]
                 ELSE txs[h]]
    /\ UNCHANGED <<readVars, deployVars, stakingVars, worldVars, flows, timers>>

\* fetchData(), not awaited, from a handler, a watcher, the timer or Retry
WithFetch(q, owner) == IF address = None THEN q ELSE Append(q, NewAdminFetch(owner))

Scheduled == {i \in 1..Len(adFetches) : adFetches[i].owner \in {"poll", "retry"}}

\* The account connects: the effect runs fetchData and starts the interval
AdminConnect ==
    /\ address = None
    /\ \E a \in Addresses : address' = Some(a)
    /\ ad' = AdminFetchHead(ad)
    /\ adFetches' = Append(adFetches, NewAdminFetch("poll"))
    /\ UNCHANGED <<readVars, deployVars, stakingVars, chainId, chain, flows, txs, timers>>

\* setInterval(fetchData, 5000)
AdminPollTick ==
    /\ address # None
    /\ Cardinality(Scheduled) < MaxFetches
    /\ ad' = AdminFetchHead(ad)
    /\ adFetches' = Append(adFetches, NewAdminFetch("poll"))
    /\ UNCHANGED <<readVars, deployVars, stakingVars, worldVars, flows, txs, timers>>

\* Retry: setError(null); fetchData()
AdminRetry ==
    /\ GatePassed(ad)
    /\ ad.error # None
    /\ Cardinality(Scheduled) < MaxFetches
    /\ ad' = AdminFetchHead(ad)
    /\ adFetches' = Append(adFetches, NewAdminFetch("retry"))
    /\ UNCHANGED <<readVars, deployVars, stakingVars, worldVars, flows, txs, timers>>

\* ---- transactions ---------------------------------------------------------
\* How a wallet request (writeAsync) settles
SubmitOutcomes ==
    IF address # None /\ Len(txs) < MaxTxs THEN {"hash", "rejected", "error"}
    ELSE {"rejected", "error"}

\* handleTransactionError
handleTransactionError(a, outcome) ==
    [a EXCEPT !.error = IF outcome = "rejected" THEN Some(UserRejected)
                        ELSE Some(<<RpcError>>)]


\* pause() reverts when the contract is paused, unpause() when it is not, and
\* depositRewards() when the transfer exceeds the balance or the allowance
CanConfirm(tx) ==
    CASE tx.kind = "pause"          -> ~chain.paused
      [] tx.kind = "unpause"        -> chain.paused
      [] tx.kind = "depositRewards" -> /\ BigLeq(tx.amount[1], chain.balance)
                                       /\ BigLeq(tx.amount[1], chain.allowance)
      [] OTHER                      -> TRUE

\* The contracts' state after the transaction
Effect(tx, c) ==
    CASE tx.kind = "pause"          -> [c EXCEPT !.paused = TRUE]
      [] tx.kind = "unpause"        -> [c EXCEPT !.paused = FALSE]
      [] tx.kind = "approve"        -> [c EXCEPT !.allowance = tx.amount[1]]
      [] tx.kind = "notifyRewardAmount" ->
            [c EXCEPT !.rewardRate = BigDivNat(tx.amount[1], RewardsDuration)]
      [] tx.kind = "depositRewards" ->
            [c EXCEPT !.balance = BigSub(@, tx.amount[1]),
                      !.allowance = BigSub(@, tx.amount[1])]
      [] OTHER                      -> c

\* A pending transaction is included in a block
TxMine(h) ==
    /\ txs[h].state = "pending"
    /\ \/ /\ CanConfirm(txs[h])
          /\ chain' = Effect(txs[h], chain)
          /\ txs' = [txs EXCEPT ![h].state = "confirmed",
                                ![h].reflected = /\ txs[h].kind \in {"pause", "unpause"}
                                                 /\ ShowsFlag(ad, chain'.paused)]
       \/ /\ txs' = [txs EXCEPT ![h].state = "reverted"]
          /\ UNCHANGED chain
    /\ UNCHANGED <<readVars, deployVars, stakingVars, chainId, address, ad, adFetches, flows,
                   timers>>

\* ---- handlePauseToggle ----------------------------------------------------
NewFlow(type) ==
    [type |-> type, pc |-> "submit", action |-> "none", parsedAmount |-> None,
     allowanceShort |-> FALSE, approveHash |-> None]

\* stakingStats?.isPaused ? unpause : pause
ToggleAction(a) ==
    IF a.stakingStats # None /\ a.stakingStats[1].isPaused THEN "unpause" ELSE "pause"

\* The pause button: handlePauseToggle up to the await in handleTransaction
ClickPauseToggle ==
    /\ PausePanel(ad)
    /\ ~ad.loading
    /\ ~InProgress(ad.pauseTxStatus)
    /\ IF ad.pauseTxStatus # "idle"
       THEN UNCHANGED <<ad, flows>>
       ELSE /\ ad' = [ad EXCEPT !.pauseTxStatus = "preparing", !.error = None]
            /\ flows' = Append(flows, [NewFlow("pause") EXCEPT
                                          !.action = ToggleAction(ad)])
    /\ UNCHANGED <<readVars, deployVars, stakingVars, worldVars, adFetches, txs, timers>>

\* await action() settles in handleTransaction(action, "pause")
PauseSubmit(i) ==
    /\ flows[i].type = "pause"
    /\ \E o \in SubmitOutcomes :
         IF o = "hash"
         THEN /\ txs' = Append(txs, NewTx(flows[i].action, None))
              /\ ad' = [ad EXCEPT !.pauseTxHash = Some(Len(txs) + 1),
                                  !.pauseTxStatus = "pending"]
         ELSE /\ ad' = handleTransactionError([ad EXCEPT !.pauseTxStatus = "error"], o)
              /\ UNCHANGED txs
    /\ flows' = RemoveAt(flows, i)
    /\ UNCHANGED <<readVars, deployVars, stakingVars, worldVars, adFetches, timers>>

\* useWaitForTransactionReceipt({hash: pauseTxHash, onSuccess, onError})
PauseWatcher ==
    /\ ad.pauseTxHash # None
    /\ LET h == ad.pauseTxHash[1] IN
         /\ txs[h].state # "pending"
         /\ ~txs[h].notified
         /\ txs' = [txs EXCEPT ![h].notified = TRUE]
         /\ IF txs[h].state = "confirmed"
            THEN /\ ad' = IF address = None
                          THEN [ad EXCEPT !.pauseTxStatus = "success"]
                          ELSE AdminFetchHead([ad EXCEPT !.pauseTxStatus = "success"])
                 /\ timers' = [timers EXCEPT !["pause"] = @ + 1]
                 /\ adFetches' = WithFetch(adFetches, "watcher")
            ELSE /\ ad' = [ad EXCEPT
                             !.pauseTxStatus = "error",
                             !.error = Some(<<IF ToggleAction(ad) = "unpause"
                                              THEN "Unpause transaction failed"
                                              ELSE "Pause transaction failed",
                                              RpcError>>)]
                 /\ UNCHANGED <<timers, adFetches>>
    /\ UNCHANGED <<readVars, deployVars, stakingVars, worldVars, flows>>

\* The callback of setTimeout(..., 5000) in the pause watcher's onSuccess
PauseTimer ==
    /\ timers["pause"] > 0
    /\ timers' = [timers EXCEPT !["pause"] = @ - 1]
    /\ ad' = [ad EXCEPT !.pauseTxStatus = "idle", !.pauseTxHash = None]
    /\ UNCHANGED <<readVars, deployVars, stakingVars, worldVars, adFetches, flows, txs>>

InitPause ==
    /\ chainId \in ChainIds
    /\ address = None
    /\ chain \in AdminChainStates
    /\ AdminParked
    /\ ReadsParked
    /\ StakingParked
    /\ DeployParked

NextPause ==
    \/ AdminConnect
    \/ AdminPollTick
    \/ AdminRetry
    \/ \E i \in 1..Len(adFetches) : AdminFetchSettle(i)
    \/ ChainSwitch
    \/ ClickPauseToggle
    \/ \E i \in 1..Len(flows) : PauseSubmit(i)
    \/ \E h \in 1..Len(txs) : TxMine(h)
    \/ PauseWatcher
    \/ PauseTimer

SpecPause == InitPause /\ [][NextPause]_vars

\* C19: in either version of the dashboard, Access Denied is shown only with a
\* fetched role snapshot that grants no role, and is shown whenever such a
\* snapshot is stored and no fetch is loading; an address holding a role on the
\* contract is not denied; an address holding none is offered no panel.
C19_AccessDeniedIffNoRole ==
    /\ \A denied \in {AccessDenied(ad), AccessDeniedAllRoles(ad)} :
         /\ denied => (RolesFetched(ad) /\ ~HoldsRole(ad.roles))
         /\ (address # None /\ RolesFetched(ad) /\ ~HoldsRole(ad.roles) /\ ~ad.loading)
               => denied
         /\ HoldsRole(chain.roles) => ~denied
    /\ ~HoldsRole(chain.roles) => ~HoldsRole(ad.roles)

\* Transactions get mined, receipts get reported, timers fire and reads settle;
\* nothing obliges the user to click
SpecPauseFair ==
    /\ SpecPause
    /\ WF_vars(\E h \in 1..Len(txs) : TxMine(h))
    /\ WF_vars(PauseWatcher)
    /\ WF_vars(PauseTimer)
    /\ WF_vars(\E i \in 1..Len(adFetches) : AdminFetchSettle(i))

\* C29: once pauseTxStatus is 'error', it is 'idle' again at some later time,
\* which is what the guard of handlePauseToggle asks for before it starts again.
C29_ErrorStatusReturnsToIdle ==
    (ad.pauseTxStatus = "error") ~> (ad.pauseTxStatus = "idle")

\* No step takes pauseTxStatus from 'error' to anything else while no reset
\* timer of an earlier success is armed
PauseErrorStays ==
    [][(ad.pauseTxStatus = "error" /\ timers["pause"] = 0)
          => (ad'.pauseTxStatus = "error" /\ timers'["pause"] = 0)]_vars

\* The last pause or unpause of the session to be confirmed
LatestToggle ==
    CHOOSE h \in 1..Len(txs) :
        /\ txs[h].kind \in {"pause", "unpause"} /\ txs[h].state = "confirmed"
        /\ \A g \in 1..Len(txs) :
              (txs[g].kind \in {"pause", "unpause"} /\ txs[g].state = "confirmed")
                  => g <= h

\* C7: the dashboard being the only party that changes the paused flag, every
\* invocation of handlePauseToggle that goes on to the wallet asks for unpause
\* if the contract is paused at that moment and for pause if it is not, whatever
\* the reads of the preceding fetchData returned.
C7_ToggleMatchesContract ==
    [][(ClickPauseToggle /\ ad.pauseTxStatus = "idle") =>
          flows'[Len(flows')].action = IF chain.paused THEN "unpause" ELSE "pause"]_vars

\* C8: once a pause or unpause sent by the dashboard is confirmed, a poll that
\* was started after the confirmation and stores its results leaves the
\* dashboard in a state where stakingStats.isPaused has equalled the contract's
\* new flag at some moment since the confirmation.
C8_PauseReflectedByNextPoll ==
    [][\A i \in 1..Len(adFetches) :
          (/\ AdminFetchSettle(i)
           /\ adFetches[i].owner = "poll"
           /\ ConfirmedToggles > 0
           /\ adFetches[i].epoch = ConfirmedToggles
           /\ ad'.error = None)
              => txs'[LatestToggle].reflected]_vars


\* ---- handleDepositRewards -----------------------------------------------
DepositInputs == {<<>>, <<"0">>, <<"5">>}

\* parseFloat of a string the input's filter /^\d*\.?\d*$/ lets through is NaN
\* when it has no digit and zero when all its digits are
validateDepositAmount(amount) ==
    IF amount = <<>> THEN Some("Amount is required")
    ELSE IF \A i \in 1..Len(amount) : amount[i] = "." THEN Some("Invalid number")
    ELSE IF \A i \in 1..Len(amount) : amount[i] \in {"0", "."}
         THEN Some("Amount must be greater than zero")
    ELSE None

\* The deposit input's onChange
TypeDepositAmount ==
    /\ DepositPanel(ad)
    /\ ~InProgress(ad.depositTxStatus)
    /\ \E v \in DepositInputs :
         ad' = [ad EXCEPT !.depositAmount = v,
                          !.depositInputError =
                              IF v = <<>> THEN @ ELSE validateDepositAmount(v)]
    /\ UNCHANGED <<readVars, deployVars, stakingVars, worldVars, adFetches, flows, txs, timers>>

\* The deposit button: handleDepositRewards up to its first await
ClickDeposit ==
    /\ DepositPanel(ad)
    /\ ad.depositAmount # <<>>
    /\ ad.depositInputError = None
    /\ ~ad.loading
    /\ ~InProgress(ad.depositTxStatus)
    /\ LET invalid == validateDepositAmount(ad.depositAmount) IN
         IF invalid # None
         THEN /\ ad' = [ad EXCEPT !.depositInputError = invalid]
              /\ UNCHANGED flows
         ELSE IF ad.depositTxStatus # "idle"
         THEN UNCHANGED <<ad, flows>>
         ELSE /\ ad' = [ad EXCEPT !.depositTxStatus = "preparing", !.error = None]
              /\ flows' = Append(flows, [NewFlow("deposit") EXCEPT
                                            !.pc = "balance",
                                            !.parsedAmount =
                                                Some(parseEther(ad.depositAmount))])
    /\ UNCHANGED <<readVars, deployVars, stakingVars, worldVars, adFetches, txs, timers>>

\* publicClient.waitForTransactionReceipt resolves with the receipt once the
\* transaction is in a block, whatever the receipt's status
ReceiptAvailableAlways(tx) == TRUE
ReceiptAvailable(tx) == tx.state # "pending"

\* The catch around the approval
ApproveCatch(a) ==
    [a EXCEPT !.error = Some(ApprovalFailed), !.depositTxStatus = "error"]

\* The catch around the deposit
DepositCatch(a) ==
    [a EXCEPT !.error = Some(DepositFailed), !.depositTxStatus = "error"]

\* The outer catch
OuterCatch(a, outcome) ==
    handleTransactionError([a EXCEPT !.depositTxStatus = "error"], outcome)

\* The invocation returns, leaving a as the component's state
DepositEnds(i, a) ==
    /\ ad' = a
    /\ flows' = RemoveAt(flows, i)
    /\ UNCHANGED <<txs, adFetches>>

\* The invocation goes on to its next await
DepositGoes(i, pc) ==
    /\ flows' = [flows EXCEPT ![i].pc = pc]
    /\ UNCHANGED <<ad, txs, adFetches>>

\* The wallet returned a hash: setDepositTxHash, setDepositTxStatus("pending")
DepositSends(i, kind, pc) ==
    /\ txs' = Append(txs, NewTx(kind, flows[i].parsedAmount))
    /\ ad' = [ad EXCEPT !.depositTxHash = Some(Len(txs) + 1),
                        !.depositTxStatus = "pending"]
    /\ flows' = [flows EXCEPT
                    ![i].pc = pc,
                    ![i].approveHash = IF kind = "approve"
                                       THEN Some(Len(txs) + 1) ELSE @]
    /\ UNCHANGED adFetches

\* await approve(...) settles with outcome o
ApproveSubmitSettles(i, o) ==
    IF o = "hash" THEN DepositSends(i, "approve", "approveReceipt")
    ELSE DepositEnds(i, ApproveCatch(ad))

\* await depositRewards(...) settles with outcome o
DepositSubmitSettles(i, o) ==
    IF o = "hash" THEN DepositSends(i, "depositRewards", "depositReceipt")
    ELSE DepositEnds(i, DepositCatch(ad))

\* The await the invocation is parked at settles
DepositStep(i) ==
    LET f == flows[i]
        amount == f.parsedAmount[1]
    IN
    /\ f.type = "deposit"
    /\ CASE f.pc = "balance" ->
              \/ DepositEnds(i, OuterCatch(ad, "error"))
              \/ IF BigLess(chain.balance, amount)
                 THEN DepositEnds(i, [ad EXCEPT !.error = Some(InsufficientBalance),
                                                !.depositTxStatus = "error"])
                 ELSE DepositGoes(i, "allowance")
         [] f.pc = "allowance" ->
              \/ DepositEnds(i, OuterCatch(ad, "error"))
              \/ IF BigLess(chain.allowance, amount)
                 THEN /\ flows' = [flows EXCEPT ![i].pc = "approveSubmit",
                                                ![i].allowanceShort = TRUE]
                      /\ UNCHANGED <<ad, txs, adFetches>>
                 ELSE DepositGoes(i, "depositSubmit")
         [] f.pc = "approveSubmit" ->
              \E o \in SubmitOutcomes : ApproveSubmitSettles(i, o)
         [] f.pc = "approveReceipt" ->
              \/ /\ ReceiptAvailable(txs[f.approveHash[1]])
                 /\ DepositGoes(i, "depositSubmit")
              \/ DepositEnds(i, ApproveCatch(ad))
         [] f.pc = "depositSubmit" ->
              \E o \in SubmitOutcomes : DepositSubmitSettles(i, o)
         [] f.pc = "depositReceipt" ->
              \/ /\ ReceiptAvailable(txs[Len(txs)])
                 /\ ad' = LET a == [ad EXCEPT !.depositTxStatus = "success",
                                              !.depositAmount = <<>>]
                          IN  IF address = None THEN a ELSE AdminFetchHead(a)
                 /\ adFetches' = WithFetch(adFetches, "handler")
                 /\ flows' = RemoveAt(flows, i)
                 /\ UNCHANGED txs
              \/ DepositEnds(i, DepositCatch(ad))
    /\ UNCHANGED <<readVars, deployVars, stakingVars, worldVars, timers>>

\* useWaitForTransactionReceipt({hash: depositTxHash, onSuccess, onError})
DepositWatcher ==
    /\ ad.depositTxHash # None
    /\ LET h == ad.depositTxHash[1] IN
         /\ txs[h].state # "pending"
         /\ ~txs[h].notified
         /\ txs' = [txs EXCEPT ![h].notified = TRUE]
         /\ IF txs[h].state = "confirmed"
            THEN /\ ad' = IF address = None
                          THEN [ad EXCEPT !.depositTxStatus = "success"]
                          ELSE AdminFetchHead([ad EXCEPT !.depositTxStatus = "success"])
                 /\ timers' = [timers EXCEPT !["deposit"] = @ + 1]
                 /\ adFetches' = WithFetch(adFetches, "watcher")
            ELSE /\ ad' = [ad EXCEPT !.depositTxStatus = "error",
                                     !.error = Some(<<"Deposit transaction failed",
                                                      RpcError>>)]
                 /\ UNCHANGED <<timers, adFetches>>
    /\ UNCHANGED <<readVars, deployVars, stakingVars, worldVars, flows>>

\* The callback of setTimeout(..., 5000) in the deposit watcher's onSuccess
DepositTimer ==
    /\ timers["deposit"] > 0
    /\ timers' = [timers EXCEPT !["deposit"] = @ - 1]
    /\ ad' = [ad EXCEPT !.depositTxStatus = "idle", !.depositTxHash = None]
    /\ UNCHANGED <<readVars, deployVars, stakingVars, worldVars, adFetches, flows, txs>>

DepositChainStates ==
    { [paused |-> FALSE, totalStaked |-> Tokens(5), rewardRate |-> <<"3">>,
       roles |-> [NoRoles EXCEPT !.isDepositor = TRUE], balance |-> b,
       allowance |-> al] :
      b \in {Tokens(2), Tokens(5)}, al \in {Big0, Tokens(5)} } \
    { [paused |-> FALSE, totalStaked |-> Tokens(5), rewardRate |-> <<"3">>,
       roles |-> [NoRoles EXCEPT !.isDepositor = TRUE], balance |-> Tokens(2),
       allowance |-> Tokens(5)] }

InitDeposit ==
    /\ chainId = RoninChainId
    /\ address = None
    /\ chain \in DepositChainStates
    /\ AdminParked
    /\ ReadsParked
    /\ StakingParked
    /\ DeployParked

NextDeposit ==
    \/ AdminConnect
    \/ AdminPollTick
    \/ AdminRetry
    \/ \E i \in 1..Len(adFetches) : AdminFetchSettle(i)
    \/ TypeDepositAmount
    \/ ClickDeposit
    \/ \E i \in 1..Len(flows) : DepositStep(i)
    \/ \E h \in 1..Len(txs) : TxMine(h)
    \/ DepositWatcher
    \/ DepositTimer

SpecDeposit == InitDeposit /\ [][NextDeposit]_vars

\* C3: a handleDepositRewards invocation that read an allowance smaller than
\* its parsed amount has sent an approve transaction for that amount, and is
\* at the submission of depositRewards or beyond only when that transaction
\* is no longer pending.
C3_ApproveAwaitedBeforeDeposit ==
    \A i \in 1..Len(flows) :
        (flows[i].allowanceShort /\ flows[i].pc \in {"depositSubmit", "depositReceipt"})
            => /\ flows[i].approveHash # None
               /\ txs[flows[i].approveHash[1]].kind = "approve"
               /\ txs[flows[i].approveHash[1]].amount = flows[i].parsedAmount
               /\ txs[flows[i].approveHash[1]].state # "pending"

C3_Witness ==
    \E i \in 1..Len(flows) :
        /\ flows[i].allowanceShort
        /\ flows[i].pc = "depositReceipt"
        /\ txs[flows[i].approveHash[1]].state = "confirmed"
        /\ txs[Len(txs)].kind = "depositRewards"

\* C4: when the approval of a handleDepositRewards invocation fails (the wallet
\* rejects the request, the submission fails, the wait for the receipt fails or
\* the transaction reverts), the invocation ends there without sending
\* anything more, depositTxStatus is 'error' and the error message is set.
C4_FailedApproveStopsFlow ==
    [][\A i \in 1..Len(flows) :
          (/\ DepositStep(i)
           /\ \/ flows[i].pc = "approveSubmit" /\ txs' = txs
              \/ /\ flows[i].pc = "approveReceipt"
                 /\ \/ txs[flows[i].approveHash[1]].state = "reverted"
                    \/ Len(flows') < Len(flows))
              => /\ flows' = RemoveAt(flows, i)
                 /\ txs' = txs
                 /\ ad'.depositTxStatus = "error"
                 /\ ad'.error # None]_vars


\* C28: depositTxStatus is 'success' only when a depositRewards transaction has
\* been confirmed.
C28_SuccessMeansDepositConfirmed ==
    ad.depositTxStatus = "success" =>
        \E h \in 1..Len(txs) : /\ txs[h].kind = "depositRewards"
                                /\ txs[h].state = "confirmed"

\* C30: while an invocation of handleDepositRewards is running, depositTxStatus
\* is not 'idle', and no second invocation is running beside it.
C30_OneDepositFlow ==
    /\ Len(flows) <= 1
    /\ Len(flows) = 1 => ad.depositTxStatus # "idle"

\* C15: when the wallet rejects the approve or the depositRewards request of
\* handleDepositRewards with code 4001, the error set is the user-rejected
\* message 'User rejected transaction'.
C15_RejectionGivesRejectedMessage ==
    [][\A i \in 1..Len(flows) :
          (/\ flows[i].type = "deposit"
           /\ \/ flows[i].pc = "approveSubmit" /\ ApproveSubmitSettles(i, "rejected")
              \/ flows[i].pc = "depositSubmit" /\ DepositSubmitSettles(i, "rejected"))
              => ad'.error = Some(UserRejected)]_vars

\* Nothing is left that would take depositTxStatus away from 'error': no
\* invocation is running, no reset timer is armed and the watched hash has no
\* success to report. handleDepositRewards returns at its status guard from
\* here on.
DepositBlocked(a, fl, tx, tm) ==
    /\ a.depositTxStatus = "error"
    /\ fl = <<>>
    /\ tm["deposit"] = 0
    /\ \/ a.depositTxHash = None
       \/ tx[a.depositTxHash[1]].notified
       \/ tx[a.depositTxHash[1]].state = "reverted"

\* C13: when the deposit step of a handleDepositRewards invocation fails after
\* its approve transaction was confirmed, the failure is shown (depositTxStatus
\* 'error' and an error message) and the dashboard is not left where the status
\* guard turns every later invocation away.
C13_FailedDepositResumable ==
    [][\A i \in 1..Len(flows) :
          (/\ DepositStep(i)
           /\ flows[i].pc \in {"depositSubmit", "depositReceipt"}
           /\ flows' = RemoveAt(flows, i)
           /\ ad'.error = Some(DepositFailed)
           /\ flows[i].approveHash # None
           /\ txs[flows[i].approveHash[1]].state = "confirmed")
              => /\ ad'.depositTxStatus = "error"
                 /\ ~DepositBlocked(ad', flows', txs', timers')]_vars

\* Once blocked, always blocked
DepositBlockedForGood ==
    [][DepositBlocked(ad, flows, txs, timers)
          => DepositBlocked(ad', flows', txs', timers')]_vars

\* ---- handleSetRewards ----------------------------------------------------
RewardInputs == {<<>>, <<"0">>, <<"5">>}

MIN_REWARD_AMOUNT == <<"0", ".", "0", "0", "0", "0", "0", "1">>
MAX_REWARD_AMOUNT == <<"1", "0", "0", "0", "0", "0", "0">>

\* parseFloat of a string the input's filter lets through, compared as the
\* decimal it denotes
validateRewardAmount(amount) ==
    IF amount = <<>> THEN Some("Amount is required")
    ELSE IF \A i \in 1..Len(amount) : amount[i] = "." THEN Some("Invalid number format")
    ELSE IF \A i \in 1..Len(amount) : amount[i] \in {"0", "."}
         THEN Some("Must be greater than 0")
    ELSE IF BigLess(parseEther(amount), parseEther(MIN_REWARD_AMOUNT))
         THEN Some("Minimum 0.000001")
    ELSE IF BigLess(parseEther(MAX_REWARD_AMOUNT), parseEther(amount))
         THEN Some("Maximum 1000000")
    ELSE None

RewardPanel(a) == GatePassed(a) /\ a.roles.isAdmin

\* The reward input's onChange
TypeRewardAmount ==
    /\ RewardPanel(ad)
    /\ ~InProgress(ad.rewardTxStatus)
    /\ \E v \in RewardInputs :
         ad' = [ad EXCEPT !.rewardAmount = v,
                          !.rewardInputError =
                              IF v = <<>> THEN @ ELSE validateRewardAmount(v)]
    /\ UNCHANGED <<readVars, deployVars, stakingVars, worldVars, adFetches, flows, txs, timers>>

\* The set-reward button: handleSetRewards up to the await in handleTransaction
ClickSetRewards ==
    /\ RewardPanel(ad)
    /\ ad.rewardAmount # <<>>
    /\ ad.rewardInputError = None
    /\ ~ad.loading
    /\ ~InProgress(ad.rewardTxStatus)
    /\ LET invalid == validateRewardAmount(ad.rewardAmount) IN
         IF invalid # None
         THEN /\ ad' = [ad EXCEPT !.rewardInputError = invalid]
              /\ UNCHANGED flows
         ELSE IF ad.rewardTxStatus # "idle"
         THEN UNCHANGED <<ad, flows>>
         ELSE /\ ad' = [ad EXCEPT !.rewardTxStatus = "preparing", !.error = None]
              /\ flows' = Append(flows, [NewFlow("reward") EXCEPT
                                            !.action = "notifyRewardAmount",
                                            !.parsedAmount =
                                                Some(parseEther(ad.rewardAmount))])
    /\ UNCHANGED <<readVars, deployVars, stakingVars, worldVars, adFetches, txs, timers>>

\* await action() settles in handleTransaction(action, "reward"), which
\* returns; handleSetRewards then clears the input
RewardSubmit(i) ==
    /\ flows[i].type = "reward"
    /\ \E o \in SubmitOutcomes :
         IF o = "hash"
         THEN /\ txs' = Append(txs, NewTx(flows[i].action, flows[i].parsedAmount))
              /\ ad' = [ad EXCEPT !.rewardTxHash = Some(Len(txs) + 1),
                                  !.rewardTxStatus = "pending",
                                  !.rewardAmount = <<>>]
         ELSE /\ ad' = [handleTransactionError([ad EXCEPT !.rewardTxStatus = "error"], o)
                           EXCEPT !.rewardAmount = <<>>]
              /\ UNCHANGED txs
    /\ flows' = RemoveAt(flows, i)
    /\ UNCHANGED <<readVars, deployVars, stakingVars, worldVars, adFetches, timers>>

\* useWaitForTransactionReceipt({hash: rewardTxHash, onSuccess, onError})
RewardWatcher ==
    /\ ad.rewardTxHash # None
    /\ LET h == ad.rewardTxHash[1] IN
         /\ txs[h].state # "pending"
         /\ ~txs[h].notified
         /\ txs' = [txs EXCEPT ![h].notified = TRUE]
         /\ IF txs[h].state = "confirmed"
            THEN /\ ad' = IF address = None
                          THEN [ad EXCEPT !.rewardTxStatus = "success"]
                          ELSE AdminFetchHead([ad EXCEPT !.rewardTxStatus = "success"])
                 /\ timers' = [timers EXCEPT !["reward"] = @ + 1]
                 /\ adFetches' = WithFetch(adFetches, "watcher")
            ELSE /\ ad' = [ad EXCEPT !.rewardTxStatus = "error",
                                     !.error = Some(<<"Reward transaction failed",
                                                      RpcError>>)]
                 /\ UNCHANGED <<timers, adFetches>>
    /\ UNCHANGED <<readVars, deployVars, stakingVars, worldVars, flows>>

\* The callback of setTimeout(..., 5000) in the reward watcher's onSuccess
RewardTimer ==
    /\ timers["reward"] > 0
    /\ timers' = [timers EXCEPT !["reward"] = @ - 1]
    /\ ad' = [ad EXCEPT !.rewardTxStatus = "idle", !.rewardTxHash = None]
    /\ UNCHANGED <<readVars, deployVars, stakingVars, worldVars, adFetches, flows, txs>>

InitReward ==
    /\ chainId = RoninChainId
    /\ address = None
    /\ chain \in {c \in AdminChainStates : c.roles.isAdmin}
    /\ AdminParked
    /\ ReadsParked
    /\ StakingParked
    /\ DeployParked

NextReward ==
    \/ AdminConnect
    \/ AdminPollTick
    \/ AdminRetry
    \/ \E i \in 1..Len(adFetches) : AdminFetchSettle(i)
    \/ TypeRewardAmount
    \/ ClickSetRewards
    \/ \E i \in 1..Len(flows) : RewardSubmit(i)
    \/ \E h \in 1..Len(txs) : TxMine(h)
    \/ RewardWatcher
    \/ RewardTimer

SpecReward == InitReward /\ [][NextReward]_vars

\* C12: the set-reward input is emptied by the program only once the
\* notifyRewardAmount transaction is confirmed and the re-fetch that follows
\* the confirmation has completed, and it keeps its value when the wallet
\* request is rejected or fails.
C12_InputClearedOnlyAfterConfirm ==
    [][/\ (ad.rewardAmount # <<>> /\ ad'.rewardAmount = <<>> /\ ~TypeRewardAmount)
          => /\ ad.rewardTxHash # None
             /\ txs[ad.rewardTxHash[1]].state = "confirmed"
             /\ \A j \in 1..Len(adFetches') : adFetches'[j].owner # "watcher"
       /\ \A i \in 1..Len(flows) :
            (RewardSubmit(i) /\ txs' = txs) => ad'.rewardAmount = ad.rewardAmount]_vars

(***************************************************************************)
(* The contract read helpers (src/contracts/StakingContract.ts), called on  *)
(* their own.                                                               *)
(***************************************************************************)
Helpers == {"getStakingStats", "getUserStats", "checkRole"}
RoleNames == {"ADMIN", "MAINTAINER", "DEPOSITOR"}

\* The contract reads each helper issues
HelperReads(h) ==
    CASE h = "getStakingStats" -> {"totalSupply", "rewardRate", "paused"}
      [] h = "getUserStats"    -> {"balanceOf", "earned", "userPoints", "stakingTime"}
      [] h = "checkRole"       -> {"hasRole"}

\* A helper is called: it creates the contract object and issues its reads,
\* once
CallHelper ==
    /\ rd.pc # "reading"
    /\ \E h \in Helpers, r \in RoleNames :
         /\ (h = "checkRole") \/ (r = "ADMIN")
         /\ rd' = [helper |-> h, role |-> IF h = "checkRole" THEN r ELSE "none",
                   pc |-> "reading", attempts |-> 1, failed |-> {}, result |-> None]
    /\ UNCHANGED <<ro, mo, deployVars, worldVars, stakingVars, adminVars>>

\* The reads settle, those in failed with an error. getStakingStats and
\* getUserStats await them inside try; checkRole returns the pending promise,
\* so its catch is not there when the read fails
ReadsSettle ==
    /\ rd.pc = "reading"
    /\ \E failed \in SUBSET HelperReads(rd.helper) :
         LET ok == failed = {}
             value == CASE rd.helper = "getStakingStats" -> getStakingStats(chain, ok)
                        [] rd.helper = "getUserStats"    -> getUserStats(chain, ok)
                        [] rd.helper = "checkRole"       -> checkRole(chain, rd.role, ok)
         IN  rd' = IF rd.helper = "checkRole" /\ ~ok
                   THEN [rd EXCEPT !.pc = "rejected", !.failed = failed]
                   ELSE [rd EXCEPT !.pc = "resolved", !.failed = failed,
                                   !.result = Some(value)]
    /\ UNCHANGED <<ro, mo, deployVars, worldVars, stakingVars, adminVars>>

ReadChainStates ==
    { [paused |-> p, totalStaked |-> Tokens(5), rewardRate |-> rate,
       stakedAmount |-> u.stakedAmount, earnedRewards |-> u.earnedRewards,
       stakingPoints |-> u.stakingPoints, stakingTime |-> u.stakingTime, roles |-> r] :
      p \in BOOLEAN, rate \in {<<"3">>, <<"1", "2", "5">>}, u \in UserStates,
      r \in RoleSets }

InitReads ==
    /\ chainId = RoninChainId
    /\ address \in {Some(a) : a \in Addresses}
    /\ chain \in ReadChainStates
    /\ AdminParked
    /\ ReadsParked
    /\ StakingParked
    /\ DeployParked

NextReads ==
    \/ CallHelper
    \/ ReadsSettle

SpecReads == InitReads /\ [][NextReads]_vars

\* C16: a read helper that settles after one of its reads failed has made more
\* than one attempt.
C16_HelpersRetry ==
    (rd.pc \in {"resolved", "rejected"} /\ rd.failed # {}) => rd.attempts > 1

\* C25: checkRole, in either version, resolves to false when the hasRole read
\* fails; it does not reject.
C25_CheckRoleNeverRejects ==
    (rd.helper = "checkRole" /\ rd.pc # "reading" /\ rd.failed # {}) =>
        /\ checkRoleAwaited(chain, rd.role, FALSE) = FALSE
        /\ rd.pc = "resolved"
        /\ rd.result = Some(FALSE)

\* The number a short digit sequence denotes
RECURSIVE NatOf(_)
NatOf(s) == IF s = <<>> THEN 0 ELSE NatOf(SubSeq(s, 1, Len(s) - 1)) * 10 + DigitVal(s[Len(s)])

MaxOverlap == 2         \* fetchData invocations in flight at once
PollAddresses == {"0xA11CE", "0xB0B"}

\* What the contract holds for each account
PollUsers ==
    [a \in PollAddresses |->
        IF a = "0xA11CE"
        THEN [stakedAmount |-> Tokens(2), earnedRewards |-> Tokens(1),
              stakingPoints |-> <<"7">>, stakingTime |-> <<"9">>]
        ELSE [stakedAmount |-> Tokens(1), earnedRewards |-> Big0,
              stakingPoints |-> <<"1">>, stakingTime |-> <<"4">>]]

\* The contract as getUserStats(publicClient, a) reads it
UserView(c, a) ==
    [paused |-> c.paused, totalStaked |-> c.totalStaked, rewardRate |-> c.rewardRate,
     stakedAmount |-> PollUsers[a].stakedAmount,
     earnedRewards |-> PollUsers[a].earnedRewards,
     stakingPoints |-> PollUsers[a].stakingPoints,
     stakingTime |-> PollUsers[a].stakingTime]

\* An invocation of fetchData past its guard: a is the address of the render
\* whose fetchData it is. response is what its awaits will resume with, once the
\* node has answered. overtaken tells that an invocation started after this one
\* has stored its snapshot.
NewPoll(a) == [address |-> a, pc |-> "reading", response |-> None, overtaken |-> FALSE]

\* fetchData is called in the render of the connected account a
PollStart(a) ==
    /\ sd' = FetchHead(sd)
    /\ fetches' = Append(fetches, NewPoll(a))

\* The wallet connects, or changes its account: the effect's cleanup clears
\* the interval and the effect runs again for the new address
AccountChange ==
    /\ Len(fetches) < MaxOverlap
    /\ \E a \in PollAddresses :
         /\ Some(a) # address
         /\ address' = Some(a)
         /\ PollStart(a)
    /\ UNCHANGED <<readVars, deployVars, adminVars, chainId, chain, handler>>

\* The wallet disconnects: the cleanup clears the interval, no state is reset
Disconnect ==
    /\ address # None
    /\ address' = None
    /\ UNCHANGED <<readVars, deployVars, adminVars, chainId, chain, stakingVars>>

\* The interval fires, or Retry is clicked
PollAgain ==
    /\ address # None
    /\ Len(fetches) < MaxOverlap
    /\ PollStart(address[1])
    /\ UNCHANGED <<readVars, deployVars, adminVars, worldVars, handler>>

\* Another account stakes: the contract's totalSupply grows
ChainAdvance ==
    /\ chain.totalStaked = Tokens(5)
    /\ chain' = [chain EXCEPT !.totalStaked = Tokens(6)]
    /\ UNCHANGED <<readVars, deployVars, adminVars, chainId, address, stakingVars>>

\* The node answers the invocation's requests: getChainId, then the reads of
\* getStakingStats and getUserStats, each of which falls back when a read fails
PollReads(i) ==
    /\ fetches[i].pc = "reading"
    /\ \E ok \in BOOLEAN, okStats \in BOOLEAN, okUser \in BOOLEAN :
         fetches' = [fetches EXCEPT
            ![i].pc = "responded",
            ![i].response =
                IF ~ok THEN Some([failed |-> TRUE])
                ELSE Some([failed |-> FALSE,
                           stats |-> getStakingStats(chain, okStats),
                           user  |-> getUserStats(UserView(chain, fetches[i].address),
                                                  okUser)])]
    /\ UNCHANGED <<readVars, deployVars, adminVars, worldVars, sd, handler>>

\* The invocation resumes with the answer and runs to its end
PollResponse(i) ==
    /\ fetches[i].pc = "responded"
    /\ LET r == fetches[i].response[1] IN
         /\ sd' = IF r.failed THEN FetchFail(sd, RpcError) ELSE StoreStats(sd, r)
         /\ fetches' = RemoveAt([j \in 1..Len(fetches) |->
                                    IF j < i /\ ~r.failed
                                    THEN [fetches[j] EXCEPT !.overtaken = TRUE]
                                    ELSE fetches[j]], i)
    /\ UNCHANGED <<readVars, deployVars, adminVars, worldVars, handler>>

InitPolls ==
    /\ chainId = RoninChainId
    /\ address = None
    /\ chain \in {c \in ChainStates : ~c.paused /\ c.stakedAmount = Big0}
    /\ StakingParked
    /\ DeployParked
    /\ AdminParked
    /\ ReadsParked

NextPolls ==
    \/ AccountChange
    \/ Disconnect
    \/ PollAgain
    \/ ChainAdvance
    \/ \E i \in 1..Len(fetches) : PollReads(i)
    \/ \E i \in 1..Len(fetches) : PollResponse(i)

SpecPolls == InitPolls /\ [][NextPolls]_vars

\* C21: the answer to a fetchData invocation that resumes after an invocation
\* started later has stored its snapshot changes neither stakingStats nor
\* userStats.
C21_StaleResponseNotStored ==
    [][\A i \in 1..Len(fetches) :
          (PollResponse(i) /\ fetches[i].overtaken)
              => /\ sd'.stakingStats = sd.stakingStats
                 /\ sd'.userStats = sd.userStats]_vars

\* C22: every fetchData invocation is started for the connected address, and
\* one that resumes when its address is no longer the connected one leaves
\* userStats as it is.
C22_OldAddressNotStored ==
    [][/\ \A i \in 1..Len(fetches') :
            (i > Len(fetches) /\ address' # None) => fetches'[i].address = address'[1]
       /\ \A i \in 1..Len(fetches) :
            (PollResponse(i) /\ Some(fetches[i].address) # address)
                => sd'.userStats = sd.userStats]_vars

(***************************************************************************)
(* retryOperation (src/utils/alchemy.ts).                                   *)
(***************************************************************************)
MaxAttempts == 4        \* the largest maxRetries the model calls it with
OpValues == {"v1", "v2"}        \* what operation() can resolve with
OpErrors == {"e1", "e2"}        \* what operation() can reject with

\* The log keeps, in order, what retryOperation has done: each invocation of
\* operation with the way it settled, and each setTimeout with its delay
Called(r) == SelectSeq(r.log, LAMBDA ev : ev.what = "call")
Waited(r) == SelectSeq(r.log, LAMBDA ev : ev.what = "wait")

\* The delay of the setTimeout after failed attempt i
BackoffFlat(i) == 1000
Backoff(i) == 1000 * (i + 1)

\* for (let i = 0; i < maxRetries; i++) { try { ... operation() is invoked
RetryCall ==
    /\ ro.pc = "loop"
    /\ ro' = IF ro.i < ro.n
             THEN [ro EXCEPT !.pc = "awaiting"]
             ELSE [ro EXCEPT !.pc = "resolved", !.result = Some(Undefined)]
    /\ UNCHANGED <<rd, mo, deployVars, worldVars, stakingVars, adminVars>>

\* return await operation(): it resolves, or it rejects and the catch runs
RetrySettle ==
    /\ ro.pc = "awaiting"
    /\ \/ \E v \in OpValues :
            ro' = [ro EXCEPT !.pc = "resolved", !.result = Some(v),
                             !.log = Append(@, [what |-> "call", i |-> ro.i,
                                                settled |-> v, ms |-> 0])]
       \/ \E e \in OpErrors :
            LET logged == Append(ro.log, [what |-> "call", i |-> ro.i,
                                          settled |-> e, ms |-> 0])
            IN  ro' = IF ro.i = ro.n - 1
                      THEN [ro EXCEPT !.pc = "rejected", !.result = Some(e),
                                      !.log = logged]
                      ELSE [ro EXCEPT !.pc = "waiting",
                                      !.log = Append(logged,
                                                [what |-> "wait", i |-> ro.i,
                                                 settled |-> e,
                                                 ms |-> Backoff(ro.i)])]
    /\ UNCHANGED <<rd, mo, deployVars, worldVars, stakingVars, adminVars>>

\* The timeout fires: i++
RetryTimeout ==
    /\ ro.pc = "waiting"
    /\ ro' = [ro EXCEPT !.pc = "loop", !.i = @ + 1]
    /\ UNCHANGED <<rd, mo, deployVars, worldVars, stakingVars, adminVars>>

InitRetry ==
    /\ \E n \in 1..MaxAttempts : ro = [RoIdle EXCEPT !.n = n, !.pc = "loop"]
    /\ rd = RdIdle
    /\ mo = MoLoaded
    /\ WorldParked
    /\ AdminParked
    /\ StakingParked
    /\ DeployParked

NextRetry ==
    \/ RetryCall
    \/ RetrySettle
    \/ RetryTimeout

\* operation() settles and timers fire
SpecRetry == InitRetry /\ [][NextRetry]_vars /\ WF_vars(NextRetry)

RetryDone == ro.pc \in {"resolved", "rejected"}

\* C24: retryOperation(op, n) with n >= 1 terminates; it invokes op at most n
\* times, one invocation at a time, and none after one that succeeded, whose
\* value it returns; it waits 1000 * (i + 1) ms after failed attempt i and
\* before the next attempt, and at no other time; after n failed attempts it
\* rejects with the error of the n-th.
C24_RetryOperation ==
    /\ <>RetryDone
    /\ [](LET calls == Called(ro)
              waits == Waited(ro)
          IN  /\ Len(calls) <= ro.n
              /\ \A k \in 1..Len(calls) :
                   /\ calls[k].i = k - 1
                   /\ (calls[k].settled \in OpValues) =>
                        /\ k = Len(calls)
                        /\ ro.pc = "resolved"
                        /\ ro.result = Some(calls[k].settled)
              /\ \A k \in 1..Len(waits) :
                   /\ waits[k].ms = 1000 * k
                   /\ calls[k].settled \in OpErrors
                   /\ k < ro.n
              /\ Len(waits) = Cardinality({k \in 1..Len(calls) :
                                 calls[k].settled \in OpErrors /\ k < ro.n})
              /\ \A k \in 1..Len(ro.log) :
                   ro.log[k].what = (IF k % 2 = 1 THEN "call" ELSE "wait")
              /\ (Len(ro.log) % 2 = 0) <=> ~RetryDone
              /\ RetryDone =>
                   /\ Len(calls) >= 1
                   /\ ro.pc = "rejected" <=>
                        (Len(calls) = ro.n /\ calls[ro.n].settled \in OpErrors)
                   /\ ro.pc = "rejected" => ro.result = Some(calls[ro.n].settled))

\* Three failed attempts, with their two waits, before the fourth succeeds
C24_Witness ==
    /\ ro.n = 4
    /\ ro.pc = "resolved"
    /\ Len(Called(ro)) = 4
    /\ Len(Waited(ro)) = 3
    /\ ro.result = Some("v2")

(***************************************************************************)
(* initMoralis (src/utils/moralis.ts).                                      *)
(***************************************************************************)
MaxCalls == 4           \* calls of initMoralis in a session

\* mo.promises are the promises the async function expressions have returned,
\* in order: state is "pending" or the boolean it resolved with, started tells
\* whether its body called Moralis.start. mo.callers holds, per call of
\* initMoralis, the promise it returned and what the caller's await of it gave.
Pending(m) == {k \in 1..Len(m.promises) : m.promises[k].state = "pending"}

\* if (initializationPromise)
CachedNever(m) == FALSE
Cached(m) == m.initializationPromise # None

\* const initialized = await initMoralis(), before the await resumes
Caller(k) == [promise |-> k, initialized |-> "awaiting"]

\* A call of initMoralis. The body of the async function expression runs within
\* the call up to its first await, and the assignment of the promise it returns
\* to initializationPromise comes after that: when the key is missing the catch
\* has already run by then, and the assignment is the last write.
InitMoralisCall ==
    /\ Len(mo.callers) < MaxCalls
    /\ LET k == Len(mo.promises) + 1
           made(st, started) ==
               [mo EXCEPT !.promises = Append(@, [state |-> st, started |-> started]),
                          !.initializationPromise = Some(k),
                          !.callers = Append(@, Caller(k))]
       IN  mo' = IF Cached(mo)
                 THEN [mo EXCEPT !.callers =
                                    Append(@, Caller(mo.initializationPromise[1]))]
                 ELSE IF ~mo.apiKey THEN made("false", FALSE)
                 ELSE IF mo.isStarted THEN made("true", FALSE)
                 ELSE made("pending", TRUE)
    /\ UNCHANGED <<rd, ro, deployVars, worldVars, stakingVars, adminVars>>

\* await Moralis.start(...) settles for the promise k: return true, or the catch
MoralisStartSettles(k) ==
    /\ k \in Pending(mo)
    /\ \E ok \in BOOLEAN :
         mo' = IF ok
               THEN [mo EXCEPT !.isStarted = TRUE, !.promises[k].state = "true"]
               ELSE [mo EXCEPT !.initializationPromise = None,
                               !.promises[k].state = "false"]
    /\ UNCHANGED <<rd, ro, deployVars, worldVars, stakingVars, adminVars>>

\* The await of a caller resumes with the value of its promise
CallerResumes(c) ==
    /\ mo.callers[c].initialized = "awaiting"
    /\ mo.promises[mo.callers[c].promise].state # "pending"
    /\ mo' = [mo EXCEPT !.callers[c].initialized =
                            mo.promises[mo.callers[c].promise].state]
    /\ UNCHANGED <<rd, ro, deployVars, worldVars, stakingVars, adminVars>>

InitMoralis ==
    /\ \E key \in BOOLEAN : mo = [MoLoaded EXCEPT !.apiKey = key]
    /\ rd = RdIdle
    /\ ro = RoIdle
    /\ WorldParked
    /\ AdminParked
    /\ StakingParked
    /\ DeployParked

NextMoralis ==
    \/ InitMoralisCall
    \/ \E k \in 1..Len(mo.promises) : MoralisStartSettles(k)
    \/ \E c \in 1..Len(mo.callers) : CallerResumes(c)

SpecMoralis == InitMoralis /\ [][NextMoralis]_vars

\* C26: at most one Moralis.start is in flight; no promise made after one that
\* resolved true has called Moralis.start; a call of initMoralis made while an
\* initialization is in flight makes no promise of its own and returns the one
\* in flight; the callers of one initialization get the same boolean.
C26_OneInitializationInFlight ==
    /\ [](/\ Cardinality(Pending(mo)) <= 1
          /\ \A k \in 1..Len(mo.promises) :
               mo.promises[k].state = "true" =>
                   \A j \in (k + 1)..Len(mo.promises) : ~mo.promises[j].started
          /\ \A c, d \in 1..Len(mo.callers) :
               (/\ mo.callers[c].promise = mo.callers[d].promise
                /\ mo.callers[c].initialized # "awaiting"
                /\ mo.callers[d].initialized # "awaiting")
                   => mo.callers[c].initialized = mo.callers[d].initialized)
    /\ [][\A k \in Pending(mo) :
            InitMoralisCall => /\ mo'.promises = mo.promises
                               /\ mo'.callers = Append(mo.callers, Caller(k))]_vars

\* Two calls made during one initialization, which then succeeds, and a call after
C26_Witness ==
    /\ Len(mo.callers) >= 3
    /\ \A c \in 1..3 : mo.callers[c] = [promise |-> 1, initialized |-> "true"]
    /\ mo.promises[1].started
    /\ Len(mo.promises) = 1

\* C27: a promise that has resolved false is not the cached initializationPromise.
C27_FailedInitializationNotCached ==
    \A k \in 1..Len(mo.promises) :
        mo.promises[k].state = "false" => mo.initializationPromise # Some(k)

(***************************************************************************)
(* The deployment script (scripts/deploy).                                  *)
(***************************************************************************)
KeyLength == 66

\* !process.env[varName]: an unset variable and an empty one are both falsy
Falsy(v) == v = Undefined \/ v = <<>>

missingVars(e) == SelectSeq(requiredEnvVars, LAMBDA n : Falsy(e[n]))

\* privateKey.startsWith('0x')
StartsWith0x(k) == Len(k) >= 2 /\ k[1] = "0" /\ k[2] = "x"

InvalidPrivateKeyBothWrong(k) == ~StartsWith0x(k) /\ Len(k) # KeyLength
InvalidPrivateKey(k) == ~StartsWith0x(k) \/ Len(k) # KeyLength

\* "exit" stands for process.exit(1), which does not return
validateEnvironment(e) ==
    IF Len(missingVars(e)) > 0 THEN "exit"
    ELSE IF InvalidPrivateKey(e["PRIVATE_KEY"]) THEN "exit"
    ELSE "passed"

\* new ethers.Wallet(key, provider) throws unless the key is 32 bytes of hex
HexChars == Digit \cup {"a", "b", "c", "d", "e", "f"}
IsHexKey(k) ==
    /\ StartsWith0x(k)
    /\ Len(k) = KeyLength
    /\ \A i \in 3..Len(k) : k[i] \in HexChars

deploymentConfig(e, contractAddress) ==
    [ timestamp   |-> "toISOString",
      environment |-> "production",
      network     |-> "ronin",
      deployer    |-> e["DEPLOYER_ADDRESS"],
      contracts   |-> [ stakingPool |-> contractAddress,
                        braidsToken |-> e["BRAIDS_TOKEN_ADDRESS"] ] ]

\* The properties JSON.stringify writes: one whose value is undefined is left
\* out. Only the two values taken from process.env can be undefined.
JsonKeys(o) ==
    {k \in DOMAIN o : (k \in {"deployer", "braidsToken"}) => o[k] # Undefined}

Exit1(p) == [p EXCEPT !.pc = "exited", !.exitCode = 1]

\* deploy(), up to the return of validateEnvironment()
DeployValidate ==
    /\ proc.pc = "start"
    /\ proc' = IF validateEnvironment(env) = "exit"
               THEN Exit1(proc)
               ELSE [proc EXCEPT !.pc = "validated"]
    /\ UNCHANGED <<env, readVars, worldVars, stakingVars, adminVars>>

\* new ethers.JsonRpcProvider(...)
DeployProvider ==
    /\ proc.pc = "validated"
    /\ proc' = [proc EXCEPT !.pc = "provider", !.effects = @ \cup {"provider"}]
    /\ UNCHANGED <<env, readVars, worldVars, stakingVars, adminVars>>

\* new ethers.Wallet(...): a throw lands in deploy's catch, which exits with 1
DeployWallet ==
    /\ proc.pc = "provider"
    /\ proc' = IF IsHexKey(env["PRIVATE_KEY"])
               THEN [proc EXCEPT !.pc = "wallet", !.effects = @ \cup {"wallet"}]
               ELSE Exit1(proc)
    /\ UNCHANGED <<env, readVars, worldVars, stakingVars, adminVars>>

\* await StakingPoolFactory.deploy(...): the first network call
DeployContract ==
    /\ proc.pc = "wallet"
    /\ \E ok \in BOOLEAN :
         proc' = IF ok
                 THEN [proc EXCEPT !.pc = "deploying", !.effects = @ \cup {"deploy"}]
                 ELSE Exit1([proc EXCEPT !.effects = @ \cup {"deploy"}])
    /\ UNCHANGED <<env, readVars, worldVars, stakingVars, adminVars>>

\* await waitForDeployment(); await getAddress()
DeployWait ==
    /\ proc.pc = "deploying"
    /\ \E ok \in BOOLEAN :
         proc' = IF ok THEN [proc EXCEPT !.pc = "deployed"] ELSE Exit1(proc)
    /\ UNCHANGED <<env, readVars, worldVars, stakingVars, adminVars>>

\* saveDeploymentConfig(deploymentConfig); the script then ends normally
DeploySave ==
    /\ proc.pc = "deployed"
    /\ \E ok \in BOOLEAN :
         proc' = IF ok
                 THEN [proc EXCEPT !.pc = "done", !.exitCode = 0,
                                   !.effects = @ \cup {"file"},
                                   !.file = deploymentConfig(env, "0xStakingPool")]
                 ELSE Exit1(proc)
    /\ UNCHANGED <<env, readVars, worldVars, stakingVars, adminVars>>

\* Environments the script can be started in
EnvValues == {Undefined, <<>>, <<"v">>}
KeyPrefixes == {<<"0", "x">>, <<"0", "X">>, <<"a", "b">>}
KeyValues ==
    {Undefined, <<>>} \cup
    { p \o Repeat(c, n - Len(p)) :
        p \in KeyPrefixes, c \in {"a", "g"},
        n \in {KeyLength - 1, KeyLength, KeyLength + 1} }

InitDeploy ==
    /\ env \in [RequiredNames -> EnvValues \cup KeyValues]
    /\ env["PRIVATE_KEY"] \in KeyValues
    /\ \A n \in RequiredNames \ {"PRIVATE_KEY"} : env[n] \in EnvValues
    /\ proc = [pc |-> "start", exitCode |-> Null, effects |-> {}, file |-> Null]
    /\ WorldParked
    /\ StakingParked
    /\ AdminParked
    /\ ReadsParked

NextDeploy ==
    \/ DeployValidate
    \/ DeployProvider
    \/ DeployWallet
    \/ DeployContract
    \/ DeployWait
    \/ DeploySave

SpecDeploy == InitDeploy /\ [][NextDeploy]_vars

\* The claim's own description of a malformed environment
EnvMalformed ==
    \/ \E n \in RequiredNames : env[n] = Undefined \/ env[n] = <<>>
    \/ LET k == env["PRIVATE_KEY"] IN
         \/ Len(k) < 2
         \/ SubSeq(k, 1, 2) # <<"0", "x">>
         \/ Len(k) # 66

\* C1: whenever a required variable is unset or empty, or PRIVATE_KEY lacks the
\* 0x prefix or the length 66, the script, once it has run its validation, has
\* exited with status 1 without creating the provider or the wallet, attempting
\* a deployment or writing the deployment file.
C1_MalformedEnvExitsBeforeNetwork ==
    (EnvMalformed /\ proc.pc # "start") =>
        /\ proc.pc = "exited"
        /\ proc.exitCode = 1
        /\ proc.effects = {}
        /\ proc.file = Null

\* A key with the right prefix and the wrong length, every variable present
C1_Witness ==
    /\ \A n \in RequiredNames : ~Falsy(env[n])
    /\ StartsWith0x(env["PRIVATE_KEY"])
    /\ Len(env["PRIVATE_KEY"]) = KeyLength + 1
    /\ proc.pc = "exited"
    /\ proc.exitCode = 1

\* C20: the record written by a successful deployment has exactly the fields
\* timestamp, environment, network, deployer and contracts, and its contracts
\* has exactly the fields stakingPool and token.
C20_RecordFields ==
    (proc.pc = "done") =>
        /\ JsonKeys(proc.file)
              = {"timestamp", "environment", "network", "deployer", "contracts"}
        /\ JsonKeys(proc.file.contracts) = {"stakingPool", "token"}

====
